---------------------------- MODULE Spec2Model ----------------------------
(***************************************************************************)
(* Model of the MathEngine linear-algebra kernel (Matrix2D, Matrix3D,      *)
(* Matrix4D) and of the hierarchical Transform2D with its lazy matrix      *)
(* cache.                                                                  *)
(*                                                                         *)
(* Numbers.  A C++ float is modelled by an exact rational <<n, d>> in      *)
(* lowest terms with d > 0; rounding is not modelled.  Angles are counted  *)
(* in quarter turns (PI is 2, TAU is 4), so that std::cos and std::sin are *)
(* exact on the integer angles and std::atan2 is exact on axis vectors.    *)
(* std::sqrt is exact on the squares of rationals.  Operators that leave   *)
(* this exact fragment are not evaluated by the model.                     *)
(***************************************************************************)
EXTENDS Integers, Sequences, FiniteSets, TLC

VARIABLES
    transforms,  \* the Transform2D objects, by address
    pc,          \* "ready", or "diverged" once a call recursed over a parent cycle
    stack,       \* frames of a GetWorldMatrix call that is executed frame by frame
    retval,      \* the matrix returned by the frame that returned last
    out,         \* the value returned by the last call of a function that mutates nothing
    mat          \* the matrix object under test, tagged with its dimension

vars == <<transforms, pc, stack, retval, out, mat>>

---------------------------------------------------------------------------
(* float arithmetic *)

RECURSIVE GCD(_, _)
GCD(a, b) == IF b = 0 THEN a ELSE GCD(b, a % b)

IAbs(n) == IF n < 0 THEN -n ELSE n

Norm(n, d) ==
    LET g == GCD(IAbs(n), IAbs(d))
        s == IF d < 0 THEN -1 ELSE 1
    IN  <<(s * n) \div g, (s * d) \div g>>

Flt(n) == <<n, 1>>

Frac(n, d) == Norm(n, d)

FAdd(a, b) ==
    IF a[2] = 1 /\ b[2] = 1 THEN <<a[1] + b[1], 1>>
    ELSE LET g == GCD(a[2], b[2])
         IN  Norm(a[1] * (b[2] \div g) + b[1] * (a[2] \div g), (a[2] \div g) * b[2])

FNeg(a) == <<-a[1], a[2]>>

FSub(a, b) == FAdd(a, FNeg(b))

FMul(a, b) ==
    IF a[2] = 1 /\ b[2] = 1 THEN <<a[1] * b[1], 1>>
    ELSE IF a[1] = 0 \/ b[1] = 0 THEN <<0, 1>>
    ELSE LET g1 == GCD(IAbs(a[1]), b[2])
             g2 == GCD(IAbs(b[1]), a[2])
         IN  <<(a[1] \div g1) * (b[1] \div g2), (a[2] \div g2) * (b[2] \div g1)>>

FDiv(a, b) == FMul(a, IF b[1] < 0 THEN <<-b[2], -b[1]>> ELSE <<b[2], b[1]>>)

\* the sign of an integer
Sgn(i) == IF i > 0 THEN 1 ELSE IF i < 0 THEN -1 ELSE 0

\* neither an infinity <<1, 0>>, <<-1, 0>> nor NaN <<0, 0>>
IsFinite(a) == a[2] # 0

\* the IEEE product: with an infinity or NaN as an operand it is an infinity,
\* or NaN when the other operand is zero or NaN
FMulIEEE(a, b) ==
    IF a[2] = 0 \/ b[2] = 0 THEN <<Sgn(a[1]) * Sgn(b[1]), 0>> ELSE FMul(a, b)

\* the IEEE quotient: a / 0 is an infinity or, for 0 / 0, NaN; a finite a
\* over an infinity is zero
FDivIEEE(a, b) ==
    IF b[1] = 0 \/ a[2] = 0
    THEN <<IF b[2] = 0 THEN 0 ELSE Sgn(a[1]) * (IF b[1] < 0 THEN -1 ELSE 1), 0>>
    ELSE IF b[2] = 0 THEN <<0, 1>>
    ELSE FDiv(a, b)

FAbs(a) == <<IAbs(a[1]), a[2]>>

FLess(a, b) == FSub(a, b)[1] < 0

FMax(a, b) == IF FLess(a, b) THEN b ELSE a

FMin(a, b) == IF FLess(b, a) THEN b ELSE a

\* a < 1e-6 and a < 1e-5 for a >= 0, without forming n * 10^6
EPSILON == 1000000

EPSILON_MEDIUM == 100000

BelowTol(a, inv) == a[1] = 0 \/ a[1] <= (a[2] - 1) \div inv

WithinTol(a, inv) == a[1] <= a[2] \div inv

ISqrt(n) == CHOOSE k \in 0..n : k * k = n

Sqrt(a) == <<ISqrt(a[1]), ISqrt(a[2])>>

\* angles in quarter turns
PI == 2

TAU == 4

Cos(r) == LET k == r[1] % 4 IN Flt(CASE k = 0 -> 1 [] k = 1 -> 0 [] k = 2 -> -1 [] k = 3 -> 0)

Sin(r) == LET k == r[1] % 4 IN Flt(CASE k = 0 -> 0 [] k = 1 -> 1 [] k = 2 -> 0 [] k = 3 -> -1)

Atan2(y, x) ==
    Flt(CASE y = Flt(0) /\ x = Flt(1) -> 0
          [] y = Flt(1) /\ x = Flt(0) -> 1
          [] y = Flt(0) /\ x = Flt(-1) -> 2
          [] y = Flt(-1) /\ x = Flt(0) -> -1)

\* degrees * DEG_TO_RAD, DEG_TO_RAD = PI / 180
DegToRad(d) == FMul(d, Frac(PI, 180))

---------------------------------------------------------------------------
(* Vector2D *)

Vector2D(x, y) == [x |-> x, y |-> y]

V2Add(a, b) == Vector2D(FAdd(a.x, b.x), FAdd(a.y, b.y))

V2Sub(a, b) == Vector2D(FSub(a.x, b.x), FSub(a.y, b.y))

V2Scale(a, s) == Vector2D(FMul(a.x, s), FMul(a.y, s))

\* Length() = sqrt(x^2 + y^2)
V2Length(a) ==
    IF a.y[1] = 0 THEN FAbs(a.x)
    ELSE IF a.x[1] = 0 THEN FAbs(a.y)
    ELSE Sqrt(FAdd(FMul(a.x, a.x), FMul(a.y, a.y)))

---------------------------------------------------------------------------
(* Matrix3D *)

Matrix3D(a00, a01, a02, a10, a11, a12, a20, a21, a22) ==
    [m00 |-> a00, m01 |-> a01, m02 |-> a02,
     m10 |-> a10, m11 |-> a11, m12 |-> a12,
     m20 |-> a20, m21 |-> a21, m22 |-> a22]

Matrix3D_Default ==
    Matrix3D(Flt(1), Flt(0), Flt(0), Flt(0), Flt(1), Flt(0), Flt(0), Flt(0), Flt(1))

Dot3(a, b, c, d, e, f) == FAdd(FAdd(FMul(a, b), FMul(c, d)), FMul(e, f))

Matrix3D_Multiply(a, o) ==
    Matrix3D(
        Dot3(a.m00, o.m00, a.m01, o.m10, a.m02, o.m20),
        Dot3(a.m00, o.m01, a.m01, o.m11, a.m02, o.m21),
        Dot3(a.m00, o.m02, a.m01, o.m12, a.m02, o.m22),
        Dot3(a.m10, o.m00, a.m11, o.m10, a.m12, o.m20),
        Dot3(a.m10, o.m01, a.m11, o.m11, a.m12, o.m21),
        Dot3(a.m10, o.m02, a.m11, o.m12, a.m12, o.m22),
        Dot3(a.m20, o.m00, a.m21, o.m10, a.m22, o.m20),
        Dot3(a.m20, o.m01, a.m21, o.m11, a.m22, o.m21),
        Dot3(a.m20, o.m02, a.m21, o.m12, a.m22, o.m22))


\* operator*(float)
Matrix3D_ScalarMultiply(a, scalar) ==
    Matrix3D(
        FMul(a.m00, scalar), FMul(a.m01, scalar), FMul(a.m02, scalar),
        FMul(a.m10, scalar), FMul(a.m11, scalar), FMul(a.m12, scalar),
        FMul(a.m20, scalar), FMul(a.m21, scalar), FMul(a.m22, scalar))

\* a * d - b * c
\* Trace: m00 + m11 + m22
Matrix3D_Trace(a) == FAdd(FAdd(a.m00, a.m11), a.m22)

Det2(a, d, b, c) == FSub(FMul(a, d), FMul(b, c))

\* x * p - y * q + z * r
Cofactors3(x, p, y, q, z, r) == FAdd(FSub(FMul(x, p), FMul(y, q)), FMul(z, r))

Matrix3D_Determinant(a) ==
    Cofactors3(a.m00, Det2(a.m11, a.m22, a.m12, a.m21),
               a.m01, Det2(a.m10, a.m22, a.m12, a.m20),
               a.m02, Det2(a.m10, a.m21, a.m11, a.m20))

\* the cofactor signs of another layout: the first row and column negated
Matrix3D_Adjoint_WrongSigns(a) ==
    LET c00 == Det2(a.m11, a.m22, a.m12, a.m21)
        c01 == Det2(a.m10, a.m22, a.m12, a.m20)
        c02 == Det2(a.m10, a.m21, a.m11, a.m20)
        c10 == Det2(a.m01, a.m22, a.m02, a.m21)
        c11 == Det2(a.m00, a.m22, a.m02, a.m20)
        c12 == Det2(a.m00, a.m21, a.m01, a.m20)
        c20 == Det2(a.m01, a.m12, a.m02, a.m11)
        c21 == Det2(a.m00, a.m12, a.m02, a.m10)
        c22 == Det2(a.m00, a.m11, a.m01, a.m10)
    IN  Matrix3D(c00, c10, c20,
                 c01, c11, c21,
                 c02, c12, c22)

Matrix3D_Adjoint(a) ==
    LET c00 == Det2(a.m11, a.m22, a.m12, a.m21)
        c01 == Det2(a.m10, a.m22, a.m12, a.m20)
        c02 == Det2(a.m10, a.m21, a.m11, a.m20)
        c10 == Det2(a.m01, a.m22, a.m02, a.m21)
        c11 == Det2(a.m00, a.m22, a.m02, a.m20)
        c12 == Det2(a.m00, a.m21, a.m01, a.m20)
        c20 == Det2(a.m01, a.m12, a.m02, a.m11)
        c21 == Det2(a.m00, a.m12, a.m02, a.m10)
        c22 == Det2(a.m00, a.m11, a.m01, a.m10)
    IN  Matrix3D(c00, FNeg(c10), c20,
                 FNeg(c01), c11, FNeg(c21),
                 c02, FNeg(c12), c22)

\* the outcome of a call that may throw
Returned(v) == [ok |-> TRUE, val |-> v]

Thrown(e) == [ok |-> FALSE, error |-> e]

\* faulty variant: only an exactly zero determinant is refused
Matrix3D_Inverse_ZeroTest(a) ==
    LET det == Matrix3D_Determinant(a)
    IN  IF det = Flt(0) THEN Thrown("runtime_error")
        ELSE Returned(Matrix3D_ScalarMultiply(Matrix3D_Adjoint(a), FDiv(Flt(1), det)))

Matrix3D_Inverse(a) ==
    LET det == Matrix3D_Determinant(a)
    IN  IF BelowTol(FAbs(det), EPSILON) THEN Thrown("runtime_error")
        ELSE Returned(Matrix3D_ScalarMultiply(Matrix3D_Adjoint(a), FDiv(Flt(1), det)))

\* the elements in row-major order
Matrix3D_Data(a) == <<a.m00, a.m01, a.m02, a.m10, a.m11, a.m12, a.m20, a.m21, a.m22>>

Matrix3D_SetElement(a, row, col, value) ==
    LET d == [Matrix3D_Data(a) EXCEPT ![row * 3 + col + 1] = value]
    IN  Matrix3D(d[1], d[2], d[3], d[4], d[5], d[6], d[7], d[8], d[9])

Matrix3D_Transpose(a) ==
    Matrix3D(a.m00, a.m10, a.m20,
             a.m01, a.m11, a.m21,
             a.m02, a.m12, a.m22)

\* std::swap(m01, m10); std::swap(m02, m20); std::swap(m12, m21)
Matrix3D_TransposeInPlace(a) ==
    LET s1 == [a EXCEPT !.m01 = a.m10, !.m10 = a.m01]
        s2 == [s1 EXCEPT !.m02 = s1.m20, !.m20 = s1.m02]
    IN  [s2 EXCEPT !.m12 = s2.m21, !.m21 = s2.m12]

\* faulty variant: only an exactly zero scalar is left out
Matrix3D_Divide_ZeroOnly(a, scalar) ==
    IF scalar = Flt(0) THEN a
    ELSE Matrix3D(
            FDiv(a.m00, scalar), FDiv(a.m01, scalar), FDiv(a.m02, scalar),
            FDiv(a.m10, scalar), FDiv(a.m11, scalar), FDiv(a.m12, scalar),
            FDiv(a.m20, scalar), FDiv(a.m21, scalar), FDiv(a.m22, scalar))

\* operator/ and operator/=: the same guard and the same quotients
Matrix3D_Divide(a, scalar) ==
    IF BelowTol(FAbs(scalar), EPSILON) THEN a
    ELSE Matrix3D(
            FDiv(a.m00, scalar), FDiv(a.m01, scalar), FDiv(a.m02, scalar),
            FDiv(a.m10, scalar), FDiv(a.m11, scalar), FDiv(a.m12, scalar),
            FDiv(a.m20, scalar), FDiv(a.m21, scalar), FDiv(a.m22, scalar))

---------------------------------------------------------------------------
(* Matrix2D *)

Matrix2D(a00, a01, a10, a11) == [m00 |-> a00, m01 |-> a01, m10 |-> a10, m11 |-> a11]

Matrix2D_Multiply(a, o) ==
    Matrix2D(
        FAdd(FMul(a.m00, o.m00), FMul(a.m01, o.m10)),
        FAdd(FMul(a.m00, o.m01), FMul(a.m01, o.m11)),
        FAdd(FMul(a.m10, o.m00), FMul(a.m11, o.m10)),
        FAdd(FMul(a.m10, o.m01), FMul(a.m11, o.m11)))

Matrix2D_Determinant(a) == Det2(a.m00, a.m11, a.m01, a.m10)

Matrix2D_Adjoint(a) == Matrix2D(a.m11, FNeg(a.m01), FNeg(a.m10), a.m00)

Matrix2D_Inverse(a) ==
    LET Det == Matrix2D_Determinant(a)
    IN  IF Det = Flt(0) THEN Thrown("runtime_error")
        ELSE Returned(Matrix2D(FDiv(a.m11, Det), FDiv(FNeg(a.m01), Det),
                               FDiv(FNeg(a.m10), Det), FDiv(a.m00, Det)))

Matrix2D_Data(a) == <<a.m00, a.m01, a.m10, a.m11>>

Matrix2D_Transpose(a) == Matrix2D(a.m00, a.m10, a.m01, a.m11)

\* operator*(float): a Vector2D of the first row's products
Matrix2D_ScalarMultiply(a, Scalar) ==
    Vector2D(FMulIEEE(a.m00, Scalar), FMulIEEE(a.m01, Scalar))

\* operator/ and operator/=: the quotients, whatever the scalar
Matrix2D_Divide(a, Scalar) ==
    Matrix2D(FDivIEEE(a.m00, Scalar), FDivIEEE(a.m01, Scalar),
             FDivIEEE(a.m10, Scalar), FDivIEEE(a.m11, Scalar))

\* GetSheared(float, float)
Matrix2D_GetSheared(a, ShearX, ShearY) ==
    Matrix2D(FAdd(a.m00, FMul(ShearX, a.m10)), FAdd(a.m01, FMul(ShearY, a.m11)),
             FAdd(a.m10, FMul(ShearX, a.m00)), FAdd(a.m11, FMul(ShearY, a.m01)))

\* Shear(float, float): the matrix after the call
Matrix2D_Shear(a, ShearX, ShearY) ==
    LET old_m00 == a.m00
        old_m01 == a.m01
        old_m10 == a.m10
        old_m11 == a.m11
    IN  Matrix2D(FAdd(old_m00, FMul(ShearX, old_m10)), FAdd(old_m01, FMul(ShearX, old_m11)),
                 FAdd(old_m10, FMul(ShearY, old_m00)), FAdd(old_m11, FMul(ShearY, old_m01)))

---------------------------------------------------------------------------
(* Matrix4D: the sixteen floats m00 .. m33, laid out in row-major order and *)
(* addressed as data[row * 4 + col]                                         *)

Matrix4D_Default ==
    [k \in 1..16 |-> IF (k - 1) \div 4 = (k - 1) % 4 THEN Flt(1) ELSE Flt(0)]

\* indices in range
Matrix4D_GetElement(a, row, col) == a[row * 4 + col + 1]

Matrix4D_SetElement(a, row, col, value) == [a EXCEPT ![row * 4 + col + 1] = value]

Matrix4D_Multiply(a, o) ==
    [k \in 1..16 |->
        LET r == (k - 1) \div 4
            c == (k - 1) % 4
        IN  FAdd(FAdd(FAdd(FMul(Matrix4D_GetElement(a, r, 0), Matrix4D_GetElement(o, 0, c)),
                           FMul(Matrix4D_GetElement(a, r, 1), Matrix4D_GetElement(o, 1, c))),
                      FMul(Matrix4D_GetElement(a, r, 2), Matrix4D_GetElement(o, 2, c))),
                 FMul(Matrix4D_GetElement(a, r, 3), Matrix4D_GetElement(o, 3, c)))]

Matrix4D_ScalarMultiply(a, scalar) == [k \in 1..16 |-> FMul(a[k], scalar)]

\* faulty variant: no test of the scalar
Matrix4D_Divide_Unchecked(a, scalar) ==
    Returned([k \in 1..16 |-> FMulIEEE(a[k], FDivIEEE(Flt(1), scalar))])

\* operator/: multiplies by 1.0f / scalar
Matrix4D_Divide(a, scalar) ==
    IF scalar = Flt(0) THEN Thrown("invalid_argument")
    ELSE Returned(Matrix4D_ScalarMultiply(a, FDiv(Flt(1), scalar)))

Matrix4D_Transpose(a) ==
    [k \in 1..16 |-> Matrix4D_GetElement(a, (k - 1) % 4, (k - 1) \div 4)]

\* the swap of the elements (r, c) and (c, r)
Swap4(a, r, c) ==
    [a EXCEPT ![r * 4 + c + 1] = a[c * 4 + r + 1], ![c * 4 + r + 1] = a[r * 4 + c + 1]]

\* faulty variant: the swap of m23 and m32 is missing
Matrix4D_TransposeInPlace_FiveSwaps(a) ==
    Swap4(Swap4(Swap4(Swap4(Swap4(a, 0, 1), 0, 2), 0, 3), 1, 2), 1, 3)

\* six std::swap calls
Matrix4D_TransposeInPlace(a) ==
    Swap4(Swap4(Swap4(Swap4(Swap4(Swap4(a, 0, 1), 0, 2), 0, 3), 1, 2), 1, 3), 2, 3)

\* faulty variant: the four cofactors of the first row are added without
\* alternating signs
Matrix4D_Determinant_NoAlternation(a) ==
    LET m(r, c) == Matrix4D_GetElement(a, r, c)
        c00 == Cofactors3(m(1, 1), Det2(m(2, 2), m(3, 3), m(2, 3), m(3, 2)),
                          m(1, 2), Det2(m(2, 1), m(3, 3), m(2, 3), m(3, 1)),
                          m(1, 3), Det2(m(2, 1), m(3, 2), m(2, 2), m(3, 1)))
        c01 == Cofactors3(m(1, 0), Det2(m(2, 2), m(3, 3), m(2, 3), m(3, 2)),
                          m(1, 2), Det2(m(2, 0), m(3, 3), m(2, 3), m(3, 0)),
                          m(1, 3), Det2(m(2, 0), m(3, 2), m(2, 2), m(3, 0)))
        c02 == Cofactors3(m(1, 0), Det2(m(2, 1), m(3, 3), m(2, 3), m(3, 1)),
                          m(1, 1), Det2(m(2, 0), m(3, 3), m(2, 3), m(3, 0)),
                          m(1, 3), Det2(m(2, 0), m(3, 1), m(2, 1), m(3, 0)))
        c03 == Cofactors3(m(1, 0), Det2(m(2, 1), m(3, 2), m(2, 2), m(3, 1)),
                          m(1, 1), Det2(m(2, 0), m(3, 2), m(2, 2), m(3, 0)),
                          m(1, 2), Det2(m(2, 0), m(3, 1), m(2, 1), m(3, 0)))
    IN  FAdd(FAdd(FAdd(FMul(m(0, 0), c00), FMul(m(0, 1), c01)), FMul(m(0, 2), c02)),
             FMul(m(0, 3), c03))

Matrix4D_Determinant(a) ==
    LET m(r, c) == Matrix4D_GetElement(a, r, c)
        c00 == Cofactors3(m(1, 1), Det2(m(2, 2), m(3, 3), m(2, 3), m(3, 2)),
                          m(1, 2), Det2(m(2, 1), m(3, 3), m(2, 3), m(3, 1)),
                          m(1, 3), Det2(m(2, 1), m(3, 2), m(2, 2), m(3, 1)))
        c01 == Cofactors3(m(1, 0), Det2(m(2, 2), m(3, 3), m(2, 3), m(3, 2)),
                          m(1, 2), Det2(m(2, 0), m(3, 3), m(2, 3), m(3, 0)),
                          m(1, 3), Det2(m(2, 0), m(3, 2), m(2, 2), m(3, 0)))
        c02 == Cofactors3(m(1, 0), Det2(m(2, 1), m(3, 3), m(2, 3), m(3, 1)),
                          m(1, 1), Det2(m(2, 0), m(3, 3), m(2, 3), m(3, 0)),
                          m(1, 3), Det2(m(2, 0), m(3, 1), m(2, 1), m(3, 0)))
        c03 == Cofactors3(m(1, 0), Det2(m(2, 1), m(3, 2), m(2, 2), m(3, 1)),
                          m(1, 1), Det2(m(2, 0), m(3, 2), m(2, 2), m(3, 0)),
                          m(1, 2), Det2(m(2, 0), m(3, 1), m(2, 1), m(3, 0)))
    IN  FSub(FAdd(FSub(FMul(m(0, 0), c00), FMul(m(0, 1), c01)), FMul(m(0, 2), c02)),
             FMul(m(0, 3), c03))

\* the minor lambda of Adjoint: the determinant of the 3x3 submatrix that
\* excludes row i0 and column j0
Matrix4D_Minor(a, i0, j0) ==
    LET kept(x) == IF x = 0 THEN <<1, 2, 3>>
                   ELSE IF x = 1 THEN <<0, 2, 3>>
                   ELSE IF x = 2 THEN <<0, 1, 3>>
                   ELSE <<0, 1, 2>>
        s(si, sj) == Matrix4D_GetElement(a, kept(i0)[si + 1], kept(j0)[sj + 1])
    IN  Cofactors3(s(0, 0), Det2(s(1, 1), s(2, 2), s(1, 2), s(2, 1)),
                   s(0, 1), Det2(s(1, 0), s(2, 2), s(1, 2), s(2, 0)),
                   s(0, 2), Det2(s(1, 0), s(2, 1), s(1, 1), s(2, 0)))

\* result.SetElement(j, i, sign * minor(i, j)) for every i and j
Matrix4D_Adjoint(a) ==
    [k \in 1..16 |->
        LET j == (k - 1) \div 4
            i == (k - 1) % 4
            sign == IF (i + j) % 2 = 0 THEN Flt(1) ELSE Flt(-1)
        IN  FMul(sign, Matrix4D_Minor(a, i, j))]

Matrix4D_Inverse(a) ==
    LET det == Matrix4D_Determinant(a)
    IN  IF BelowTol(FAbs(det), EPSILON) THEN Thrown("runtime_error")
        ELSE Matrix4D_Divide(Matrix4D_Adjoint(a), det)

\* faulty variant: the output matrix is reset when the inversion fails
Matrix4D_TryInverse_ClobbersOut(a, outMatrix) ==
    LET r == Matrix4D_Inverse(a)
    IN  IF r.ok THEN Returned([result |-> TRUE, outMatrix |-> r.val])
        ELSE IF r.error = "runtime_error"
        THEN Returned([result |-> FALSE, outMatrix |-> Matrix4D_Default])
        ELSE r

\* try { outMatrix = Inverse(); return true; } catch (const std::runtime_error&)
\* { return false; }: any other exception leaves the call
Matrix4D_TryInverse(a, outMatrix) ==
    LET r == Matrix4D_Inverse(a)
    IN  IF r.ok THEN Returned([result |-> TRUE, outMatrix |-> r.val])
        ELSE IF r.error = "runtime_error"
        THEN Returned([result |-> FALSE, outMatrix |-> outMatrix])
        ELSE r

---------------------------------------------------------------------------
(* a matrix value tagged with its type: n is 2, 3 or 4 *)

Mat(n, m) == [n |-> n, m |-> m]

Mat_Data(x) ==
    IF x.n = 2 THEN Matrix2D_Data(x.m) ELSE IF x.n = 3 THEN Matrix3D_Data(x.m) ELSE x.m

Mat_Multiply(x, y) ==
    Mat(x.n, IF x.n = 2 THEN Matrix2D_Multiply(x.m, y.m)
             ELSE IF x.n = 3 THEN Matrix3D_Multiply(x.m, y.m)
             ELSE Matrix4D_Multiply(x.m, y.m))

Mat_Determinant(x) ==
    IF x.n = 2 THEN Matrix2D_Determinant(x.m)
    ELSE IF x.n = 3 THEN Matrix3D_Determinant(x.m)
    ELSE Matrix4D_Determinant(x.m)

Mat_Adjoint(x) ==
    Mat(x.n, IF x.n = 2 THEN Matrix2D_Adjoint(x.m)
             ELSE IF x.n = 3 THEN Matrix3D_Adjoint(x.m)
             ELSE Matrix4D_Adjoint(x.m))

Mat_Inverse(x) ==
    LET r == IF x.n = 2 THEN Matrix2D_Inverse(x.m)
             ELSE IF x.n = 3 THEN Matrix3D_Inverse(x.m)
             ELSE Matrix4D_Inverse(x.m)
    IN  IF r.ok THEN Returned(Mat(x.n, r.val)) ELSE r

Mat_Transpose(x) ==
    Mat(x.n, IF x.n = 2 THEN Matrix2D_Transpose(x.m)
             ELSE IF x.n = 3 THEN Matrix3D_Transpose(x.m)
             ELSE Matrix4D_Transpose(x.m))

\* Matrix3D and Matrix4D only
Mat_TransposeInPlace(x) ==
    Mat(x.n, IF x.n = 3 THEN Matrix3D_TransposeInPlace(x.m) ELSE Matrix4D_TransposeInPlace(x.m))

\* operator/ and the value operator/= leaves
Mat_Divide(x, scalar) ==
    IF x.n = 2 THEN Returned(Mat(2, Matrix2D_Divide(x.m, scalar)))
    ELSE IF x.n = 3 THEN Returned(Mat(3, Matrix3D_Divide(x.m, scalar)))
    ELSE LET r == Matrix4D_Divide(x.m, scalar)
         IN  IF r.ok THEN Returned(Mat(4, r.val)) ELSE r

\* operator*(float): what the operator of each type returns
Mat_ScalarMultiply(x, scalar) ==
    IF x.n = 2 THEN Matrix2D_ScalarMultiply(x.m, scalar)
    ELSE IF x.n = 3 THEN Mat(3, Matrix3D_ScalarMultiply(x.m, scalar))
    ELSE Mat(4, Matrix4D_ScalarMultiply(x.m, scalar))

\* the identity of the type of x, element (i, j) at i * n + j
Mat_IdentityData(n) == [k \in 1..(n * n) |-> IF (k - 1) \div n = (k - 1) % n THEN Flt(1) ELSE Flt(0)]

---------------------------------------------------------------------------
(* Transform2D: construction and the lazy matrix cache *)

nullptr == 0

\* the addresses of the constructed objects
Objects == DOMAIN transforms

Transform2D(position, rotation, scale) ==
    [m_Position |-> position, m_Rotation |-> rotation, m_Scale |-> scale,
     m_LocalMatrix |-> Matrix3D_Default, m_IsDirty |-> TRUE, m_Parent |-> nullptr]

Identity == Transform2D(Vector2D(Flt(0), Flt(0)), Flt(0), Vector2D(Flt(1), Flt(1)))

\* the matrix UpdateMatrix builds from the position, rotation and scale
BuildMatrix(t) ==
    LET cosTheta == Cos(t.m_Rotation)
        sinTheta == Sin(t.m_Rotation)
    IN  Matrix3D(
            FMul(t.m_Scale.x, cosTheta), FMul(FNeg(t.m_Scale.y), sinTheta), t.m_Position.x,
            FMul(t.m_Scale.x, sinTheta), FMul(t.m_Scale.y, cosTheta), t.m_Position.y,
            Flt(0), Flt(0), Flt(1))

\* faulty variant: the refresh also brings the rotation into one turn
UpdateMatrix_WrapsRotation(t) ==
    IF t.m_IsDirty
    THEN [t EXCEPT !.m_LocalMatrix = BuildMatrix(t), !.m_IsDirty = FALSE,
                   !.m_Rotation = Flt(t.m_Rotation[1] % TAU)]
    ELSE t

UpdateMatrix(t) ==
    IF t.m_IsDirty
    THEN [t EXCEPT !.m_LocalMatrix = BuildMatrix(t), !.m_IsDirty = FALSE]
    ELSE t

\* GetLocalMatrix on the object id of heap h: the value returned and the heap after
GetLocalMatrix(h, id) ==
    LET h2 == [h EXCEPT ![id] = UpdateMatrix(@)]
    IN  [val |-> h2[id].m_LocalMatrix, heap |-> h2]

RECURSIVE ChainEnds(_, _, _)
ChainEnds(h, id, fuel) ==
    IF id = nullptr THEN TRUE
    ELSE IF fuel = 0 THEN FALSE
    ELSE ChainEnds(h, h[id].m_Parent, fuel - 1)

\* the parent chain that starts at id reaches nullptr
Acyclic(h, id) == ChainEnds(h, id, Cardinality(DOMAIN h))

\* faulty variant: the parent's cached matrix is used as it is
GetWorldMatrix_StaleParent(h, id) ==
    IF h[id].m_Parent # nullptr
    THEN LET l == GetLocalMatrix(h, id)
         IN  [val |-> Matrix3D_Multiply(h[h[id].m_Parent].m_LocalMatrix, l.val), heap |-> l.heap]
    ELSE GetLocalMatrix(h, id)

RECURSIVE GetWorldMatrix(_, _)
GetWorldMatrix(h, id) ==
    IF h[id].m_Parent # nullptr
    THEN LET p == GetWorldMatrix(h, h[id].m_Parent)
             l == GetLocalMatrix(p.heap, id)
         IN  [val |-> Matrix3D_Multiply(p.val, l.val), heap |-> l.heap]
    ELSE GetLocalMatrix(h, id)

\* faulty variant: the point is multiplied as (x, y, 0)
PointThrough_NoTranslation(worldMatrix, point) ==
    Vector2D(
        FAdd(FMul(worldMatrix.m00, point.x), FMul(worldMatrix.m01, point.y)),
        FAdd(FMul(worldMatrix.m10, point.x), FMul(worldMatrix.m11, point.y)))

\* the arithmetic of TransformPoint and TransformVector on a world matrix
PointThrough(worldMatrix, point) ==
    Vector2D(
        FAdd(FAdd(FMul(worldMatrix.m00, point.x), FMul(worldMatrix.m01, point.y)), worldMatrix.m02),
        FAdd(FAdd(FMul(worldMatrix.m10, point.x), FMul(worldMatrix.m11, point.y)), worldMatrix.m12))

\* faulty variant: the vector is multiplied as (x, y, 1)
VectorThrough_Translated(worldMatrix, vector) ==
    Vector2D(
        FAdd(FAdd(FMul(worldMatrix.m00, vector.x), FMul(worldMatrix.m01, vector.y)), worldMatrix.m02),
        FAdd(FAdd(FMul(worldMatrix.m10, vector.x), FMul(worldMatrix.m11, vector.y)), worldMatrix.m12))

VectorThrough(worldMatrix, vector) ==
    Vector2D(
        FAdd(FMul(worldMatrix.m00, vector.x), FMul(worldMatrix.m01, vector.y)),
        FAdd(FMul(worldMatrix.m10, vector.x), FMul(worldMatrix.m11, vector.y)))

TransformPoint(h, id, point) ==
    LET w == GetWorldMatrix(h, id)
    IN  [val |-> PointThrough(w.val, point), heap |-> w.heap]

TransformVector(h, id, vector) ==
    LET w == GetWorldMatrix(h, id)
    IN  [val |-> VectorThrough(w.val, vector), heap |-> w.heap]

TransformDirection(h, id, direction) == TransformVector(h, id, direction)

\* faulty variant: the two matrices are multiplied in the other order
Compose_OtherFirst(this, other) ==
    LET thisMat == UpdateMatrix(this).m_LocalMatrix
        otherMat == UpdateMatrix(other).m_LocalMatrix
        resultMat == Matrix3D_Multiply(otherMat, thisMat)
        position == Vector2D(resultMat.m02, resultMat.m12)
        scaleX == V2Length(Vector2D(resultMat.m00, resultMat.m10))
        scaleY == V2Length(Vector2D(resultMat.m01, resultMat.m11))
        rotation == Atan2(FDiv(resultMat.m10, scaleX), FDiv(resultMat.m00, scaleX))
    IN  Transform2D(position, rotation, Vector2D(scaleX, scaleY))

\* Compose on two transform values: the decomposed product of the local matrices
Compose(this, other) ==
    LET thisMat == UpdateMatrix(this).m_LocalMatrix
        otherMat == UpdateMatrix(other).m_LocalMatrix
        resultMat == Matrix3D_Multiply(thisMat, otherMat)
        position == Vector2D(resultMat.m02, resultMat.m12)
        scaleX == V2Length(Vector2D(resultMat.m00, resultMat.m10))
        scaleY == V2Length(Vector2D(resultMat.m01, resultMat.m11))
        rotation == Atan2(FDiv(resultMat.m10, scaleX), FDiv(resultMat.m00, scaleX))
    IN  Transform2D(position, rotation, Vector2D(scaleX, scaleY))

\* faulty variant: the inverse position is not divided by the scale
LocalInverse_UnscaledPosition(t) ==
    LET invRotation == FNeg(t.m_Rotation)
        invScale == Vector2D(FDiv(Flt(1), t.m_Scale.x), FDiv(Flt(1), t.m_Scale.y))
        cosTheta == Cos(invRotation)
        sinTheta == Sin(invRotation)
        invPosition == Vector2D(
            FNeg(FSub(FMul(cosTheta, t.m_Position.x), FMul(sinTheta, t.m_Position.y))),
            FNeg(FAdd(FMul(sinTheta, t.m_Position.x), FMul(cosTheta, t.m_Position.y))))
    IN  Transform2D(invPosition, invRotation, invScale)

\* the parentless inverse that Inverse builds from position, rotation, scale
LocalInverse(t) ==
    LET invRotation == FNeg(t.m_Rotation)
        invScale == Vector2D(FDiv(Flt(1), t.m_Scale.x), FDiv(Flt(1), t.m_Scale.y))
        cosTheta == Cos(invRotation)
        sinTheta == Sin(invRotation)
        invPosition == Vector2D(
            FMul(FNeg(FSub(FMul(cosTheta, t.m_Position.x), FMul(sinTheta, t.m_Position.y))), invScale.x),
            FMul(FNeg(FAdd(FMul(sinTheta, t.m_Position.x), FMul(cosTheta, t.m_Position.y))), invScale.y))
    IN  Transform2D(invPosition, invRotation, invScale)

RECURSIVE Inverse(_, _)
Inverse(h, id) ==
    IF h[id].m_Parent # nullptr
    THEN LET w == GetWorldMatrix(h, id)
             parentInverse == Inverse(w.heap, h[id].m_Parent)
         IN  [val |-> Compose(LocalInverse(h[id]), parentInverse.val), heap |-> parentInverse.heap]
    ELSE [val |-> LocalInverse(h[id]), heap |-> h]

\* inverse.TransformPoint(point): the temporary returned by Inverse has no parent
InverseTransformPoint(h, id, point) ==
    LET inverse == Inverse(h, id)
    IN  [val |-> PointThrough(UpdateMatrix(inverse.val).m_LocalMatrix, point), heap |-> inverse.heap]

InverseTransformVector(h, id, vector) ==
    LET inverse == Inverse(h, id)
    IN  [val |-> VectorThrough(UpdateMatrix(inverse.val).m_LocalMatrix, vector), heap |-> inverse.heap]

\* IsIdentity(epsilon), epsilon given by its reciprocal
IsIdentity(t, inv) ==
    /\ BelowTol(V2Length(t.m_Position), inv)
    /\ BelowTol(FAbs(t.m_Rotation), inv)
    /\ BelowTol(FAbs(FSub(t.m_Scale.x, Flt(1))), inv)
    /\ BelowTol(FAbs(FSub(t.m_Scale.y, Flt(1))), inv)

\* operator==: position, rotation and scale each within 1e-6
Transform2D_Equals(a, b) ==
    /\ BelowTol(V2Length(V2Sub(a.m_Position, b.m_Position)), EPSILON)
    /\ BelowTol(FAbs(FSub(a.m_Rotation, b.m_Rotation)), EPSILON)
    /\ BelowTol(V2Length(V2Sub(a.m_Scale, b.m_Scale)), EPSILON)


\* Lerp: the two shortest-path loops, then the interpolation
\* the significant bits of a float
FLT_MANT_DIG == 24

\* the distance of the floats around the integer n: 1 up to 2^24, then doubling
RECURSIVE Ulp(_, _)
Ulp(n, u) == IF IAbs(n) <= (2 ^ FLT_MANT_DIG) * u THEN u ELSE Ulp(n, 2 * u)

\* the float nearest to an integer, ties to the even mantissa; the fractions
\* of the model are small and are kept as they are
RoundToFloat(a) ==
    IF a[2] # 1 THEN a
    ELSE LET u == Ulp(a[1], 1)
             q == a[1] \div u
             r == a[1] % u
         IN  Flt(IF 2 * r < u \/ (2 * r = u /\ q % 2 = 0) THEN q * u ELSE (q + 1) * u)

\* rot += Constants::TAU: the sum is a float again
PlusTau(rot) == RoundToFloat(FAdd(rot, Flt(TAU)))

RECURSIVE WrapRotA(_, _)
WrapRotA(rotA, rotB) ==
    IF FLess(Flt(PI), FSub(rotB, rotA)) THEN WrapRotA(PlusTau(rotA), rotB) ELSE rotA

RECURSIVE WrapRotB(_, _)
WrapRotB(rotA, rotB) ==
    IF FLess(Flt(PI), FSub(rotA, rotB)) THEN WrapRotB(rotA, PlusTau(rotB)) ELSE rotB

Lerp(a, b, t0) ==
    LET t == FMax(Flt(0), FMin(Flt(1), t0))
        position == V2Add(a.m_Position, V2Scale(V2Sub(b.m_Position, a.m_Position), t))
        scale == V2Add(a.m_Scale, V2Scale(V2Sub(b.m_Scale, a.m_Scale), t))
        rotA == WrapRotA(a.m_Rotation, b.m_Rotation)
        rotB == WrapRotB(rotA, b.m_Rotation)
        rotation == FAdd(rotA, FMul(FSub(rotB, rotA), t))
    IN  Transform2D(position, rotation, scale)

---------------------------------------------------------------------------
(* The program: two Transform2D objects and the calls made on them *)

PosVals == {Vector2D(Flt(0), Flt(0)), Vector2D(Flt(1), Flt(2))}

RotVals == {Flt(0), Flt(1)}

DegVals == {Flt(0), Flt(90)}

ScaleVals == {Vector2D(Flt(1), Flt(1)), Vector2D(Flt(1), Flt(2))}

UniformVals == {Flt(1)}

Points == {Vector2D(Flt(0), Flt(0)), Vector2D(Flt(3), Flt(4))}

\* the calls that add to a value are made while the sum stays among the values above
InBox(p) == p \in PosVals

InTurns(r) == r \in RotVals

InScale(s) == s \in ScaleVals

NoValue == [none |-> TRUE]

NoCall == [op |-> "none"]

NoMatrix == [n |-> 0]

Constructed(ids) ==
    /\ transforms = [id \in ids |-> Identity]
    /\ pc = "ready"
    /\ stack = <<>>
    /\ retval = NoValue
    /\ out = NoCall
    /\ mat = NoMatrix

\* a parent and a child, default constructed
Init == Constructed({1, 2})

\* a single object, default constructed
InitOne == Constructed({1})

\* an atomic call that leaves the objects as h
Done(h) ==
    /\ pc = "ready" /\ stack = <<>>
    /\ transforms' = h
    /\ UNCHANGED <<pc, stack, retval, out, mat>>

\* a call whose recursion over a parent cycle never returns
Diverge ==
    /\ pc = "ready" /\ stack = <<>>
    /\ pc' = "diverged"
    /\ UNCHANGED <<transforms, stack, retval, out, mat>>

SetPosition(id, position) ==
    Done([transforms EXCEPT ![id].m_Position = position, ![id].m_IsDirty = TRUE])

SetRotationRad(id, radians) ==
    Done([transforms EXCEPT ![id].m_Rotation = radians, ![id].m_IsDirty = TRUE])

SetRotationDeg(id, degrees) ==
    Done([transforms EXCEPT ![id].m_Rotation = DegToRad(degrees), ![id].m_IsDirty = TRUE])

SetScale_KeepsClean(id, scale) ==
    Done([transforms EXCEPT ![id].m_Scale = scale])

SetScale(id, scale) ==
    Done([transforms EXCEPT ![id].m_Scale = scale, ![id].m_IsDirty = TRUE])

SetScaleUniform(id, uniformScale) ==
    Done([transforms EXCEPT ![id].m_Scale = Vector2D(uniformScale, uniformScale),
                            ![id].m_IsDirty = TRUE])

SetParent(id, parent) ==
    Done([transforms EXCEPT ![id].m_Parent = parent])

Translate_Eager(id, translation) ==
    /\ InBox(V2Add(transforms[id].m_Position, translation))
    /\ Done([transforms EXCEPT ![id] =
            UpdateMatrix([@ EXCEPT !.m_Position = V2Add(@, translation), !.m_IsDirty = TRUE])])

Translate(id, translation) ==
    /\ InBox(V2Add(transforms[id].m_Position, translation))
    /\ Done([transforms EXCEPT ![id].m_Position = V2Add(@, translation), ![id].m_IsDirty = TRUE])

RotateRad(id, radians) ==
    /\ InTurns(FAdd(transforms[id].m_Rotation, radians))
    /\ Done([transforms EXCEPT ![id].m_Rotation = FAdd(@, radians), ![id].m_IsDirty = TRUE])

RotateDeg(id, degrees) ==
    /\ InTurns(FAdd(transforms[id].m_Rotation, DegToRad(degrees)))
    /\ Done([transforms EXCEPT ![id].m_Rotation = FAdd(@, DegToRad(degrees)),
                               ![id].m_IsDirty = TRUE])

Scale(id, scale) ==
    /\ InScale(Vector2D(FMul(transforms[id].m_Scale.x, scale.x), FMul(transforms[id].m_Scale.y, scale.y)))
    /\ Done([transforms EXCEPT
            ![id].m_Scale = Vector2D(FMul(@.x, scale.x), FMul(@.y, scale.y)),
            ![id].m_IsDirty = TRUE])

ScaleUniform(id, uniformScale) ==
    /\ InScale(V2Scale(transforms[id].m_Scale, uniformScale))
    /\ Done([transforms EXCEPT
            ![id].m_Scale = Vector2D(FMul(@.x, uniformScale), FMul(@.y, uniformScale)),
            ![id].m_IsDirty = TRUE])

\* a call on id that reaches GetWorldMatrix returns only if the parent chain ends
Returns(id) == Acyclic(transforms, id)

GetLocalMatrixCall(id) == Done(GetLocalMatrix(transforms, id).heap)

GetWorldMatrixCall(id) ==
    IF Returns(id) THEN Done(GetWorldMatrix(transforms, id).heap) ELSE Diverge

TransformPointCall(id, point) ==
    IF Returns(id) THEN Done(TransformPoint(transforms, id, point).heap) ELSE Diverge

TransformVectorCall(id, vector) ==
    IF Returns(id) THEN Done(TransformVector(transforms, id, vector).heap) ELSE Diverge

TransformDirectionCall(id, direction) ==
    IF Returns(id) THEN Done(TransformDirection(transforms, id, direction).heap) ELSE Diverge

InverseCall(id) ==
    IF Returns(id) THEN Done(Inverse(transforms, id).heap) ELSE Diverge

InverseTransformPointCall(id, point) ==
    IF Returns(id) THEN Done(InverseTransformPoint(transforms, id, point).heap) ELSE Diverge

InverseTransformVectorCall(id, vector) ==
    IF Returns(id) THEN Done(InverseTransformVector(transforms, id, vector).heap) ELSE Diverge

\* Compose reads both local matrices, which refreshes both caches
ComposeCall(id, other) ==
    Done(GetLocalMatrix(GetLocalMatrix(transforms, id).heap, other).heap)

InDomain(t) == InBox(t.m_Position) /\ InTurns(t.m_Rotation) /\ InScale(t.m_Scale)

\* *this = Compose(other)
MulAssign(id, other) ==
    /\ InDomain(Compose(transforms[id], transforms[other]))
    /\ Done([GetLocalMatrix(transforms, other).heap EXCEPT
                ![id] = Compose(transforms[id], transforms[other])])

\* the implicit copy assignment: every member is copied
Assign(id, other) ==
    Done([transforms EXCEPT ![id] = transforms[other]])

Mutate ==
    \E id \in Objects :
        \/ \E p \in PosVals : SetPosition(id, p)
        \/ \E r \in RotVals : SetRotationRad(id, r)
        \/ \E d \in DegVals : SetRotationDeg(id, d)
        \/ \E s \in ScaleVals : SetScale(id, s)
        \/ \E u \in UniformVals : SetScaleUniform(id, u)
        \/ \E p \in PosVals : Translate(id, p)
        \/ \E r \in RotVals : RotateRad(id, r)
        \/ \E d \in DegVals : RotateDeg(id, d)
        \/ \E s \in ScaleVals : Scale(id, s)
        \/ \E u \in UniformVals : ScaleUniform(id, u)

Link == \E id \in Objects, parent \in Objects \cup {nullptr} : SetParent(id, parent)

Read ==
    \E id \in Objects :
        \/ GetLocalMatrixCall(id)
        \/ GetWorldMatrixCall(id)
        \/ \E p \in Points : TransformPointCall(id, p)
        \/ \E p \in Points : TransformVectorCall(id, p)
        \/ \E p \in Points : TransformDirectionCall(id, p)
        \/ InverseCall(id)
        \/ \E p \in Points : InverseTransformPointCall(id, p)
        \/ \E p \in Points : InverseTransformVectorCall(id, p)
        \/ \E other \in Objects : ComposeCall(id, other)

Replace ==
    \E id \in Objects, other \in Objects :
        \/ MulAssign(id, other)
        \/ Assign(id, other)

Next == Mutate \/ Link \/ Read \/ Replace

Spec == Init /\ [][Next]_vars

SpecOne == InitOne /\ [][Next]_vars

---------------------------------------------------------------------------
(* GetWorldMatrix executed frame by frame *)

MaxDepth == 4

Top == stack[Len(stack)]

HasParent_NotSelf(id) == transforms[id].m_Parent # nullptr /\ transforms[id].m_Parent # id

\* if (m_Parent)
HasParent(id) == transforms[id].m_Parent # nullptr

BeginGetWorldMatrix(id) ==
    /\ pc = "ready" /\ stack = <<>>
    /\ stack' = <<id>>
    /\ retval' = NoValue
    /\ UNCHANGED <<transforms, pc, out, mat>>

\* m_Parent->GetWorldMatrix()
Recurse ==
    /\ stack # <<>> /\ retval = NoValue
    /\ HasParent(Top)
    /\ Len(stack) < MaxDepth
    /\ stack' = Append(stack, transforms[Top].m_Parent)
    /\ UNCHANGED <<transforms, pc, retval, out, mat>>

\* return [parent's world matrix *] GetLocalMatrix()
ReturnFrame ==
    /\ stack # <<>>
    /\ ~HasParent(Top) \/ retval # NoValue
    /\ LET l == GetLocalMatrix(transforms, Top)
       IN  /\ transforms' = l.heap
           /\ retval' = IF HasParent(Top) THEN Matrix3D_Multiply(retval, l.val) ELSE l.val
    /\ stack' = SubSeq(stack, 1, Len(stack) - 1)
    /\ UNCHANGED <<pc, out, mat>>

Build ==
    \E id \in Objects :
        \/ \E p \in PosVals : SetPosition(id, p)
        \/ \E s \in ScaleVals : SetScale(id, s)

Walk == (\E id \in Objects : BeginGetWorldMatrix(id)) \/ Recurse \/ ReturnFrame

NextRec == Build \/ Link \/ Walk

\* a call that has begun keeps running
SpecRec == Init /\ [][NextRec]_vars /\ WF_vars(Recurse) /\ WF_vars(ReturnFrame)


---------------------------------------------------------------------------
(* The static function Lerp, called on two constructed transforms *)

MaxTurns == 3

LerpInputs ==
    {Transform2D(p, Flt(r), s) : p \in PosVals, r \in (-MaxTurns)..MaxTurns, s \in ScaleVals}

LerpVals == {Flt(0), Flt(1), Frac(1, 2), Flt(-1), Flt(2)}

InitLerp ==
    /\ transforms \in [{1, 2} -> LerpInputs]
    /\ pc = "ready"
    /\ stack = <<>>
    /\ retval = NoValue
    /\ out = NoCall
    /\ mat = NoMatrix

LerpCall(a, b, t) ==
    /\ out' = [op |-> "Lerp", a |-> a, b |-> b, t |-> t,
               val |-> Lerp(transforms[a], transforms[b], t)]
    /\ UNCHANGED <<transforms, pc, stack, retval, mat>>

NextLerp == \E a \in Objects, b \in Objects, t \in LerpVals : LerpCall(a, b, t)

SpecLerp == InitLerp /\ [][NextLerp]_vars

---------------------------------------------------------------------------
(* Lerp executed loop by loop *)

\* a rotation so large that adding TAU to it gives the same float
BigTurns == 2 ^ 28

\* the pairs of rotations: both small, or both at BigTurns in magnitude
LoopRotPairs ==
    {<<Flt(ra), Flt(rb)>> : ra \in (-MaxTurns)..MaxTurns, rb \in (-MaxTurns)..MaxTurns}
    \cup {<<Flt(ra), Flt(rb)>> : ra \in {-BigTurns, BigTurns}, rb \in {-BigTurns, BigTurns}}

InitLoop ==
    /\ \E p \in PosVals, r \in LoopRotPairs :
           transforms = <<Transform2D(p, r[1], Vector2D(Flt(1), Flt(1))),
                          Transform2D(Vector2D(Flt(0), Flt(0)), r[2], Vector2D(Flt(1), Flt(2)))>>
    /\ pc = "ready"
    /\ stack = <<>>
    /\ retval = NoValue
    /\ out = NoCall
    /\ mat = NoMatrix

\* the call up to the first loop: t is clamped, position and scale are interpolated
LerpBegin(a, b, t0) ==
    /\ pc = "ready"
    /\ \E t \in {FMax(Flt(0), FMin(Flt(1), t0))} :
           stack' = <<[a |-> a, b |-> b, t |-> t,
                       position |-> V2Add(transforms[a].m_Position,
                                          V2Scale(V2Sub(transforms[b].m_Position,
                                                        transforms[a].m_Position), t)),
                       scale |-> V2Add(transforms[a].m_Scale,
                                       V2Scale(V2Sub(transforms[b].m_Scale,
                                                     transforms[a].m_Scale), t)),
                       rotA |-> transforms[a].m_Rotation,
                       rotB |-> transforms[b].m_Rotation]>>
    /\ pc' = "loopA"
    /\ out' = [op |-> "Lerp", a |-> a, b |-> b, t |-> t0]
    /\ retval' = NoValue
    /\ UNCHANGED <<transforms, mat>>

\* the test of while (rotB - rotA > PI)
LerpTestA ==
    /\ pc = "loopA"
    /\ pc' = IF FLess(Flt(PI), FSub(stack[1].rotB, stack[1].rotA)) THEN "bodyA" ELSE "loopB"
    /\ UNCHANGED <<transforms, stack, retval, out, mat>>

\* rotA += TAU
LerpBodyA ==
    /\ pc = "bodyA"
    /\ stack' = <<[stack[1] EXCEPT !.rotA = PlusTau(@)]>>
    /\ pc' = "loopA"
    /\ UNCHANGED <<transforms, retval, out, mat>>

\* the test of while (rotA - rotB > PI)
LerpTestB ==
    /\ pc = "loopB"
    /\ pc' = IF FLess(Flt(PI), FSub(stack[1].rotA, stack[1].rotB)) THEN "bodyB" ELSE "interpolate"
    /\ UNCHANGED <<transforms, stack, retval, out, mat>>

\* rotB += TAU
LerpBodyB ==
    /\ pc = "bodyB"
    /\ stack' = <<[stack[1] EXCEPT !.rotB = PlusTau(@)]>>
    /\ pc' = "loopB"
    /\ UNCHANGED <<transforms, retval, out, mat>>

\* the interpolated rotation and the return; out keeps the adjusted endpoints
LerpReturn ==
    /\ pc = "interpolate"
    /\ \E f \in {stack[1]} :
           /\ retval' = Transform2D(f.position,
                                    FAdd(f.rotA, FMul(FSub(f.rotB, f.rotA), f.t)), f.scale)
           /\ out' = [op |-> "Lerp", a |-> f.a, b |-> f.b, t |-> out.t,
                      rotA |-> f.rotA, rotB |-> f.rotB]
    /\ stack' = <<>>
    /\ pc' = "done"
    /\ UNCHANGED <<transforms, mat>>

\* the steps of a call that was started
LerpStep == LerpTestA \/ LerpBodyA \/ LerpTestB \/ LerpBodyB \/ LerpReturn

NextLoop ==
    \/ \E t \in LerpVals : LerpBegin(1, 2, t)
    \/ \E t \in LerpVals : LerpBegin(2, 1, t)
    \/ LerpStep

SpecLoop == InitLoop /\ [][NextLoop]_vars

\* a call that was started goes on: the code is sequential
SpecLoopLive == SpecLoop /\ WF_vars(LerpStep)

---------------------------------------------------------------------------
(* One Transform2D shared by two threads: a reader in GetLocalMatrix and a *)
(* writer in SetPosition, statement by statement.  The callers either wrap *)
(* every call in one mutex or use none; pc maps each thread to its         *)
(* position, stack holds the matrix the reader has built, retval holds the *)
(* mutex.                                                                  *)

Threads == {"reader", "writer"}

RacePositions == PosVals \cup Points

\* m_Position = position
StorePosition(t, position) == [t EXCEPT !.m_Position = position]

\* faulty variant: the flag is left as it is
MarkDirty_Skipped(t) == t

\* m_IsDirty = true
MarkDirty(t) == [t EXCEPT !.m_IsDirty = TRUE]

\* m_LocalMatrix = Matrix3D(...)
StoreMatrix(t, matrix) == [t EXCEPT !.m_LocalMatrix = matrix]

\* m_IsDirty = false
ClearDirty(t) == [t EXCEPT !.m_IsDirty = FALSE]

InitRace ==
    /\ transforms = <<Identity>>
    /\ pc = [th \in Threads |-> "idle"]
    /\ stack = <<>>
    /\ retval \in {[mutex |-> m, holder |-> "none"] : m \in BOOLEAN}
    /\ out = NoCall
    /\ mat = NoMatrix

\* the caller locks the mutex, if the callers use one, and enters the call
Enter(th, at) ==
    /\ pc[th] = "idle"
    /\ retval.mutex => retval.holder = "none"
    /\ retval' = [retval EXCEPT !.holder = IF retval.mutex THEN th ELSE @]
    /\ pc' = [pc EXCEPT ![th] = at]

\* the call returns and the caller unlocks the mutex
Leave(th) ==
    /\ retval' = [retval EXCEPT !.holder = "none"]
    /\ pc' = [pc EXCEPT ![th] = "idle"]

ReaderEnter ==
    /\ Enter("reader", "test")
    /\ UNCHANGED <<transforms, stack, out, mat>>

\* if (m_IsDirty)
ReaderTest ==
    /\ pc["reader"] = "test"
    /\ pc' = [pc EXCEPT !["reader"] = IF transforms[1].m_IsDirty THEN "build" ELSE "return"]
    /\ UNCHANGED <<transforms, stack, retval, out, mat>>

\* the matrix is built from the position, rotation and scale read now
ReaderBuild ==
    /\ pc["reader"] = "build"
    /\ stack' = <<BuildMatrix(transforms[1])>>
    /\ pc' = [pc EXCEPT !["reader"] = "store"]
    /\ UNCHANGED <<transforms, retval, out, mat>>

ReaderStore ==
    /\ pc["reader"] = "store"
    /\ transforms' = [transforms EXCEPT ![1] = StoreMatrix(@, stack[1])]
    /\ stack' = <<>>
    /\ pc' = [pc EXCEPT !["reader"] = "clear"]
    /\ UNCHANGED <<retval, out, mat>>

ReaderClear ==
    /\ pc["reader"] = "clear"
    /\ transforms' = [transforms EXCEPT ![1] = ClearDirty(@)]
    /\ pc' = [pc EXCEPT !["reader"] = "return"]
    /\ UNCHANGED <<stack, retval, out, mat>>

\* return m_LocalMatrix
ReaderReturn ==
    /\ pc["reader"] = "return"
    /\ out' = [op |-> "GetLocalMatrix", val |-> transforms[1].m_LocalMatrix]
    /\ Leave("reader")
    /\ UNCHANGED <<transforms, stack, mat>>

WriterEnter ==
    /\ Enter("writer", "position")
    /\ UNCHANGED <<transforms, stack, out, mat>>

WriterPosition(position) ==
    /\ pc["writer"] = "position"
    /\ transforms' = [transforms EXCEPT ![1] = StorePosition(@, position)]
    /\ pc' = [pc EXCEPT !["writer"] = "dirty"]
    /\ UNCHANGED <<stack, retval, out, mat>>

WriterDirty ==
    /\ pc["writer"] = "dirty"
    /\ transforms' = [transforms EXCEPT ![1] = MarkDirty(@)]
    /\ Leave("writer")
    /\ UNCHANGED <<stack, out, mat>>

NextRace ==
    \/ ReaderEnter
    \/ ReaderTest
    \/ ReaderBuild
    \/ ReaderStore
    \/ ReaderClear
    \/ ReaderReturn
    \/ WriterEnter
    \/ \E position \in RacePositions : WriterPosition(position)
    \/ WriterDirty

SpecRace == InitRace /\ [][NextRace]_vars

---------------------------------------------------------------------------
(* The calls that return a Transform2D, made on two objects built by the   *)
(* constructor from position, rotation and scale                           *)

ComposeRots == {Flt(0), Flt(1)}

\* uniform scales of both signs, a non-uniform scale, a reflection
ComposeScales ==
    {Vector2D(Flt(1), Flt(1)), Vector2D(Flt(-2), Flt(-2)),
     Vector2D(Flt(1), Flt(2)), Vector2D(Flt(-1), Flt(1))}

ComposeInputs ==
    {Transform2D(p, r, s) : p \in PosVals, r \in ComposeRots, s \in ComposeScales}

InitCompose ==
    /\ transforms \in [{1, 2} -> ComposeInputs]
    /\ pc = "ready"
    /\ stack = <<>>
    /\ retval = NoValue
    /\ out = NoCall
    /\ mat = NoMatrix

\* the object holds the position, rotation and scale it was constructed with
AsConstructed(t) ==
    Transform2D(t.m_Position, t.m_Rotation, t.m_Scale) \in ComposeInputs

\* a call on the objects self that returns val and leaves the objects as h;
\* the calls are made while no object has been assigned to
Value(op, a, b, val, h) ==
    /\ pc = "ready"
    /\ \A id \in Objects : AsConstructed(transforms[id])
    /\ out' = [op |-> op, self |-> transforms, a |-> a, b |-> b, val |-> val]
    /\ transforms' = h
    /\ UNCHANGED <<pc, stack, retval, mat>>

\* Compose and operator*, which returns Compose(other)
ComposeValue(op, id, other) ==
    Value(op, id, other, Compose(transforms[id], transforms[other]),
          GetLocalMatrix(GetLocalMatrix(transforms, id).heap, other).heap)

\* faulty variant: the receiver keeps the parent it had before the assignment
MulAssignValue_KeepsParent(id, other) ==
    \E r \in {[Compose(transforms[id], transforms[other])
                  EXCEPT !.m_Parent = transforms[id].m_Parent]} :
        Value("MulAssign", id, other, r,
              [GetLocalMatrix(transforms, other).heap EXCEPT ![id] = r])

\* operator*=: *this = Compose(other)
MulAssignValue(id, other) ==
    \E r \in {Compose(transforms[id], transforms[other])} :
        Value("MulAssign", id, other, r,
              [GetLocalMatrix(transforms, other).heap EXCEPT ![id] = r])

InverseValue(id) ==
    /\ Returns(id)
    /\ \E r \in {Inverse(transforms, id)} : Value("Inverse", id, id, r.val, r.heap)

LerpValue(a, b, t) ==
    Value("Lerp", a, b, Lerp(transforms[a], transforms[b], t), transforms)

\* the first object is given the second as its parent, or none
NextCompose ==
    \/ \E parent \in {2, nullptr} : SetParent(1, parent)
    \/ \E id \in Objects, other \in Objects : ComposeValue("Compose", id, other)
    \/ ComposeValue("Multiply", 1, 2)
    \/ \E id \in Objects, other \in Objects : MulAssignValue(id, other)
    \/ \E id \in Objects : InverseValue(id)
    \/ LerpValue(1, 2, Frac(1, 2))

SpecCompose == InitCompose /\ [][NextCompose]_vars

---------------------------------------------------------------------------
(* The const calls and SetParent on two objects, for what they leave alone *)

\* a rotation within the first turn and one beyond it
FrameRots == {Flt(0), Flt(5)}

InitFrame ==
    /\ transforms \in [{1, 2} -> {Transform2D(p, r, s) :
                                     p \in PosVals, r \in FrameRots, s \in ScaleVals}]
    /\ pc = "ready"
    /\ stack = <<>>
    /\ retval = NoValue
    /\ out = NoCall
    /\ mat = NoMatrix

\* the calls that are declared const (operator* is Compose), and the static Lerp
ConstCall ==
    \/ Read
    \/ LerpCall(1, 2, Frac(1, 2))

NextFrame == Link \/ ConstCall

SpecFrame == InitFrame /\ [][NextFrame]_vars

---------------------------------------------------------------------------
(* The matrix types: one matrix object, edited element by element and      *)
(* queried                                                                 *)

\* elements of more than this many places differ from the identity's
MaxEdits == 2

\* values written into 3x3 and 4x4 matrices; zero and the large one go on the
\* diagonal only, which keeps the inverses within the integers of the checker
MatVals == {Flt(2)}

BigVal == Flt(1024)

ElementInputs(n) ==
    {<<r, c, v>> : r \in 0..(n - 1), c \in 0..(n - 1), v \in MatVals}
        \cup {<<r, r, v>> : r \in 0..(n - 1), v \in {Flt(0), BigVal}}

\* values passed to the Matrix2D constructor
Mat2Vals == {Flt(-1), Flt(0), Flt(2), Flt(3)}

\* the number of elements of x that differ from the identity's
Edits(x) ==
    Cardinality({k \in DOMAIN Mat_Data(x) : Mat_Data(x)[k] # Mat_IdentityData(x.n)[k]})

\* the matrices that are edited further: few elements changed, all of them
\* values that are written
Editable(x) ==
    /\ Edits(x) <= MaxEdits
    /\ \A k \in DOMAIN Mat_Data(x) : Mat_Data(x)[k] \in {Flt(0), Flt(1), BigVal} \cup MatVals

\* a Matrix2D built from four floats, a default Matrix3D or a default Matrix4D
InitMat ==
    /\ mat \in {Mat(2, Matrix2D(a, b, c, d)) : a \in Mat2Vals, b \in Mat2Vals,
                                               c \in Mat2Vals, d \in Mat2Vals}
               \cup {Mat(3, Matrix3D_Default), Mat(4, Matrix4D_Default)}
    /\ transforms = <<>>
    /\ pc = "ready"
    /\ stack = <<>>
    /\ retval = NoValue
    /\ out = NoCall

\* a call on the matrix that returns r and leaves the matrix alone
Query(op, r) ==
    /\ out' = [op |-> op, self |-> mat, val |-> r]
    /\ UNCHANGED <<transforms, pc, stack, retval, mat>>

\* a call that leaves the matrix as m and returns nothing
Update(m) ==
    /\ mat' = m
    /\ out' = NoCall
    /\ UNCHANGED <<transforms, pc, stack, retval>>

SetElement3(row, col, value) ==
    /\ mat.n = 3
    /\ Editable(Mat(3, Matrix3D_SetElement(mat.m, row, col, value)))
    /\ Update(Mat(3, Matrix3D_SetElement(mat.m, row, col, value)))

SetElement4(row, col, value) ==
    /\ mat.n = 4
    /\ Editable(Mat(4, Matrix4D_SetElement(mat.m, row, col, value)))
    /\ Update(Mat(4, Matrix4D_SetElement(mat.m, row, col, value)))

DeterminantCall == Query("Determinant", Returned(Mat_Determinant(mat)))

AdjointCall == Query("Adjoint", Returned(Mat_Adjoint(mat)))

MatInverseCall == Query("Inverse", Mat_Inverse(mat))

\* *this = Inverse(): nothing is assigned when Inverse() throws
InvertInPlace ==
    /\ mat.n \in {3, 4}
    /\ LET r == Mat_Inverse(mat)
       IN  IF r.ok THEN Update(r.val) ELSE Query("InvertInPlace", r)

\* the matrices passed as outMatrix: a default one or a copy of the receiver
OutInputs == {Matrix4D_Default, mat.m}

TryInverseCall(outMatrix) ==
    /\ mat.n = 4
    /\ out' = [op |-> "TryInverse", self |-> mat, before |-> outMatrix,
               val |-> Matrix4D_TryInverse(mat.m, outMatrix)]
    /\ UNCHANGED <<transforms, pc, stack, retval, mat>>

Edit ==
    \/ \E e \in ElementInputs(3) : SetElement3(e[1], e[2], e[3])
    \/ \E e \in ElementInputs(4) : SetElement4(e[1], e[2], e[3])
    \/ InvertInPlace

Ask ==
    \/ DeterminantCall \/ AdjointCall \/ MatInverseCall
    \/ mat.n = 4 /\ \E outMatrix \in OutInputs : TryInverseCall(outMatrix)

NextMat == Edit \/ Ask

SpecMat == InitMat /\ [][NextMat]_vars

---------------------------------------------------------------------------
(* The indexed accessors of Matrix3D and Matrix4D *)

Vector3D(x, y, z) == [x |-> x, y |-> y, z |-> z]

\* a setter that returned, or threw error, with the object as it left it
Wrote(a) == [ok |-> TRUE, self |-> a]

Threw(e, a) == [ok |-> FALSE, error |-> e, self |-> a]

Matrix3D_GetElementChecked(a, row, col) ==
    IF row < 0 \/ row > 2 \/ col < 0 \/ col > 2 THEN Thrown("out_of_range")
    ELSE Returned(Matrix3D_Data(a)[row * 3 + col + 1])

\* operator()(int, int) const
Matrix3D_Call(a, row, col) ==
    IF row < 0 \/ row > 2 \/ col < 0 \/ col > 2 THEN Thrown("out_of_range")
    ELSE Returned(Matrix3D_Data(a)[row * 3 + col + 1])

Matrix3D_SetElementChecked(a, row, col, value) ==
    IF row < 0 \/ row > 2 \/ col < 0 \/ col > 2 THEN Threw("out_of_range", a)
    ELSE Wrote(Matrix3D_SetElement(a, row, col, value))

Matrix3D_GetRow(a, row) ==
    IF row < 0 \/ row > 2 THEN Thrown("out_of_range")
    ELSE Returned(CASE row = 0 -> Vector3D(a.m00, a.m01, a.m02)
                    [] row = 1 -> Vector3D(a.m10, a.m11, a.m12)
                    [] row = 2 -> Vector3D(a.m20, a.m21, a.m22))

\* faulty variant: no test of the index, and no case of the switch is taken
Matrix3D_SetRow_Unchecked(a, row, value) ==
    Wrote(CASE row = 0 -> [a EXCEPT !.m00 = value.x, !.m01 = value.y, !.m02 = value.z]
           [] row = 1 -> [a EXCEPT !.m10 = value.x, !.m11 = value.y, !.m12 = value.z]
           [] row = 2 -> [a EXCEPT !.m20 = value.x, !.m21 = value.y, !.m22 = value.z]
           [] OTHER -> a)

Matrix3D_SetRow(a, row, value) ==
    IF row < 0 \/ row > 2 THEN Threw("out_of_range", a)
    ELSE Wrote(CASE row = 0 -> [a EXCEPT !.m00 = value.x, !.m01 = value.y, !.m02 = value.z]
                [] row = 1 -> [a EXCEPT !.m10 = value.x, !.m11 = value.y, !.m12 = value.z]
                [] row = 2 -> [a EXCEPT !.m20 = value.x, !.m21 = value.y, !.m22 = value.z])

Matrix3D_GetColumn(a, col) ==
    IF col < 0 \/ col > 2 THEN Thrown("out_of_range")
    ELSE Returned(CASE col = 0 -> Vector3D(a.m00, a.m10, a.m20)
                    [] col = 1 -> Vector3D(a.m01, a.m11, a.m21)
                    [] col = 2 -> Vector3D(a.m02, a.m12, a.m22))

Matrix3D_SetColumn(a, col, value) ==
    IF col < 0 \/ col > 2 THEN Threw("out_of_range", a)
    ELSE Wrote(CASE col = 0 -> [a EXCEPT !.m00 = value.x, !.m10 = value.y, !.m20 = value.z]
                [] col = 1 -> [a EXCEPT !.m01 = value.x, !.m11 = value.y, !.m21 = value.z]
                [] col = 2 -> [a EXCEPT !.m02 = value.x, !.m12 = value.y, !.m22 = value.z])

Matrix4D_GetElementChecked(a, row, col) ==
    IF row < 0 \/ row > 3 \/ col < 0 \/ col > 3 THEN Thrown("out_of_range")
    ELSE Returned(Matrix4D_GetElement(a, row, col))

Matrix4D_SetElementChecked(a, row, col, value) ==
    IF row < 0 \/ row > 3 \/ col < 0 \/ col > 3 THEN Threw("out_of_range", a)
    ELSE Wrote(Matrix4D_SetElement(a, row, col, value))

\* a std::array<float, 4> is a sequence of four floats
Matrix4D_GetRow(a, row) ==
    IF row < 0 \/ row > 3 THEN Thrown("out_of_range")
    ELSE Returned(<<a[row * 4 + 1], a[row * 4 + 2], a[row * 4 + 3], a[row * 4 + 4]>>)

Matrix4D_SetRow(a, row, values) ==
    IF row < 0 \/ row > 3 THEN Threw("out_of_range", a)
    ELSE Wrote([a EXCEPT ![row * 4 + 1] = values[1], ![row * 4 + 2] = values[2],
                        ![row * 4 + 3] = values[3], ![row * 4 + 4] = values[4]])

Matrix4D_GetColumn(a, col) ==
    IF col < 0 \/ col > 3 THEN Thrown("out_of_range")
    ELSE Returned(<<a[col + 1], a[col + 5], a[col + 9], a[col + 13]>>)

Matrix4D_SetColumn(a, col, values) ==
    IF col < 0 \/ col > 3 THEN Threw("out_of_range", a)
    ELSE Wrote([a EXCEPT ![col + 1] = values[1], ![col + 5] = values[2],
                        ![col + 9] = values[3], ![col + 13] = values[4]])

\* the accessors of the type of x, a Matrix3D or a Matrix4D; a row or a
\* column is passed and returned as the sequence of its elements
SeqOfVector3D(v) == <<v.x, v.y, v.z>>

Mat_GetElement(x, row, col) ==
    IF x.n = 3 THEN Matrix3D_GetElementChecked(x.m, row, col)
    ELSE Matrix4D_GetElementChecked(x.m, row, col)

Mat_Wrap(n, r) == IF r.ok THEN Wrote(Mat(n, r.self)) ELSE Threw(r.error, Mat(n, r.self))

Mat_SetElement(x, row, col, value) ==
    Mat_Wrap(x.n, IF x.n = 3 THEN Matrix3D_SetElementChecked(x.m, row, col, value)
                  ELSE Matrix4D_SetElementChecked(x.m, row, col, value))

Mat_GetRow(x, row) ==
    IF x.n = 3
    THEN LET r == Matrix3D_GetRow(x.m, row)
         IN  IF r.ok THEN Returned(SeqOfVector3D(r.val)) ELSE r
    ELSE Matrix4D_GetRow(x.m, row)

Mat_SetRow(x, row, values) ==
    Mat_Wrap(x.n, IF x.n = 3
                  THEN Matrix3D_SetRow(x.m, row, Vector3D(values[1], values[2], values[3]))
                  ELSE Matrix4D_SetRow(x.m, row, values))

Mat_GetColumn(x, col) ==
    IF x.n = 3
    THEN LET r == Matrix3D_GetColumn(x.m, col)
         IN  IF r.ok THEN Returned(SeqOfVector3D(r.val)) ELSE r
    ELSE Matrix4D_GetColumn(x.m, col)

Mat_SetColumn(x, col, values) ==
    Mat_Wrap(x.n, IF x.n = 3
                  THEN Matrix3D_SetColumn(x.m, col, Vector3D(values[1], values[2], values[3]))
                  ELSE Matrix4D_SetColumn(x.m, col, values))

\* at most MaxWrites elements are made to differ from the identity
MaxWrites == 2

\* the indices passed: around both ends of the range 0..(n - 1)
AccIndices(n) == {-1, 0, n - 1, n}

\* the rows and columns written: MatVals on one element, zero elsewhere
RowInputs(n) == {[c \in 1..n |-> IF c = k THEN v ELSE Flt(0)] : k \in 1..n, v \in MatVals}

\* a default Matrix3D or a default Matrix4D
InitAcc ==
    /\ mat \in {Mat(3, Matrix3D_Default), Mat(4, Matrix4D_Default)}
    /\ transforms = <<>>
    /\ pc = "ready"
    /\ stack = <<>>
    /\ retval = NoCall
    /\ out = NoCall

\* a setter call: the object as the call leaves it, and the failure if it threw
Setter(op, r) ==
    /\ r.ok => Edits(r.self) <= MaxWrites
    /\ mat' = r.self
    /\ out' = IF r.ok THEN NoCall ELSE [op |-> op, self |-> mat, val |-> Thrown(r.error)]
    /\ UNCHANGED <<transforms, pc, stack, retval>>

GetElementCall(row, col) == Query("GetElement", Mat_GetElement(mat, row, col))

CallOperator(row, col) == mat.n = 3 /\ Query("operator()", Matrix3D_Call(mat.m, row, col))

SetElementCall(row, col, value) == Setter("SetElement", Mat_SetElement(mat, row, col, value))

GetRowCall(row) == Query("GetRow", Mat_GetRow(mat, row))

SetRowCall(row, values) == Setter("SetRow", Mat_SetRow(mat, row, values))

GetColumnCall(col) == Query("GetColumn", Mat_GetColumn(mat, col))

SetColumnCall(col, values) == Setter("SetColumn", Mat_SetColumn(mat, col, values))

NextAcc ==
    \/ \E row \in AccIndices(mat.n), col \in AccIndices(mat.n) : GetElementCall(row, col)
    \/ \E row \in AccIndices(mat.n), col \in AccIndices(mat.n) : CallOperator(row, col)
    \/ \E row \in AccIndices(mat.n), col \in AccIndices(mat.n), value \in MatVals :
           SetElementCall(row, col, value)
    \/ \E row \in AccIndices(mat.n) : GetRowCall(row)
    \/ \E row \in AccIndices(mat.n), values \in RowInputs(mat.n) : SetRowCall(row, values)
    \/ \E col \in AccIndices(mat.n) : GetColumnCall(col)
    \/ \E col \in AccIndices(mat.n), values \in RowInputs(mat.n) : SetColumnCall(col, values)

SpecAcc == InitAcc /\ [][NextAcc]_vars

---------------------------------------------------------------------------
(* Transposition and the scalar operators of the matrices *)

\* the elements stay fractions of at most MaxNumerator over at most MaxDenominator
MaxNumerator == 16

MaxDenominator == 2

OpsVals == {Flt(0), Flt(1), Flt(-2)}

\* the scalars of the operators: zero, below the tolerance on both sides, at it, above it
OpsScalars == {Flt(0), Frac(1, 2000000), Frac(-1, 2000000), Frac(1, 1000000), Flt(2), Flt(-1)}

OpsInputs ==
    {Mat(2, Matrix2D(a, b, c, d)) : a \in OpsVals, b \in OpsVals, c \in OpsVals, d \in OpsVals}
    \cup {Mat(3, Matrix3D(a, b, Flt(3), Flt(4), Flt(5), c, Flt(7), Flt(8), Flt(9))) :
               a \in OpsVals, b \in OpsVals, c \in OpsVals}
    \cup {Mat(4, <<a, b, Flt(3), Flt(4), Flt(5), Flt(6), c, Flt(8),
                   Flt(9), Flt(10), Flt(11), Flt(12), Flt(13), Flt(14), Flt(15), Flt(16)>>) :
               a \in OpsVals, b \in OpsVals, c \in OpsVals}

\* a matrix built from its elements
InitOps ==
    /\ mat \in OpsInputs
    /\ transforms = <<>>
    /\ pc = "ready"
    /\ stack = <<>>
    /\ retval = NoCall
    /\ out = NoCall

\* the matrices that are stored: every finite element within the bounds
InOpsRange(x) ==
    \A k \in DOMAIN Mat_Data(x) :
        LET e == Mat_Data(x)[k]
        IN  IsFinite(e) => e[2] <= MaxDenominator /\ IAbs(e[1]) <= MaxNumerator

\* a const call with the argument arg
QueryWith(op, arg, r) ==
    /\ out' = [op |-> op, self |-> mat, arg |-> arg, val |-> r]
    /\ UNCHANGED <<transforms, pc, stack, retval, mat>>

TransposeCall == Query("Transpose", Returned(Mat_Transpose(mat)))

TransposeInPlace ==
    /\ mat.n \in {3, 4}
    /\ mat' = Mat_TransposeInPlace(mat)
    /\ out' = [op |-> "TransposeInPlace", before |-> mat]
    /\ UNCHANGED <<transforms, pc, stack, retval>>

DivideCall(scalar) == QueryWith("Divide", scalar, Mat_Divide(mat, scalar))

\* operator/=: the quotients are stored, or the call fails before it writes
DivideAssign(scalar) ==
    LET r == Mat_Divide(mat, scalar)
    IN  /\ r.ok => InOpsRange(r.val)
        /\ mat' = IF r.ok THEN r.val ELSE mat
        /\ out' = [op |-> "DivideAssign", self |-> mat, arg |-> scalar, val |-> r]
        /\ UNCHANGED <<transforms, pc, stack, retval>>

ScalarMultiplyCall(scalar) ==
    QueryWith("ScalarMultiply", scalar, Returned(Mat_ScalarMultiply(mat, scalar)))

NextOps ==
    \/ TransposeCall
    \/ TransposeInPlace
    \/ \E scalar \in OpsScalars : DivideCall(scalar)
    \/ \E scalar \in OpsScalars : DivideAssign(scalar)
    \/ \E scalar \in OpsScalars : ScalarMultiplyCall(scalar)

SpecOps == InitOps /\ [][NextOps]_vars

---------------------------------------------------------------------------
(* The shears of Matrix2D: one matrix, sheared in place and queried *)

\* the elements of a sheared matrix stay within MaxElement in magnitude
MaxElement == 4

ShearVals == {Flt(0), Flt(1), Flt(2)}

ShearFactors == {Flt(0), Flt(1), Flt(-1)}

InitShear ==
    /\ mat \in {Mat(2, Matrix2D(a, b, c, d)) :
                    a \in ShearVals, b \in ShearVals, c \in ShearVals, d \in ShearVals}
    /\ transforms = <<>>
    /\ pc = "ready"
    /\ stack = <<>>
    /\ retval = NoCall
    /\ out = NoCall

InShearRange(m) == \A k \in 1..4 : IAbs(Matrix2D_Data(m)[k][1]) <= MaxElement

GetShearedCall(ShearX, ShearY) ==
    QueryWith("GetSheared", <<ShearX, ShearY>>,
              Returned(Mat(2, Matrix2D_GetSheared(mat.m, ShearX, ShearY))))

\* m.Shear(ShearX, ShearY); val is what GetSheared returns on m before the call
ShearCall(ShearX, ShearY) ==
    \E sheared \in {Matrix2D_Shear(mat.m, ShearX, ShearY)} :
        /\ InShearRange(sheared)
        /\ mat' = Mat(2, sheared)
        /\ out' = [op |-> "Shear", self |-> mat, arg |-> <<ShearX, ShearY>>,
                   val |-> Returned(Mat(2, Matrix2D_GetSheared(mat.m, ShearX, ShearY)))]
        /\ UNCHANGED <<transforms, pc, stack, retval>>

NextShear ==
    \/ \E ShearX \in ShearFactors, ShearY \in ShearFactors : GetShearedCall(ShearX, ShearY)
    \/ \E ShearX \in ShearFactors, ShearY \in ShearFactors : ShearCall(ShearX, ShearY)

SpecShear == InitShear /\ [][NextShear]_vars

---------------------------------------------------------------------------
(* Matrix3D::CalculateEigenvalues *)

(* The vectors of the power iteration have irrational elements (the seed is
   (1, 1, 1) / sqrt 3), so a unit vector v is kept as the integer vector dir
   without a common factor that has its direction: v = dir / |dir|.  The
   products, lengths and quotients the code forms from v are then rational
   or square roots of rationals, and the tests on lengths are made on the
   squares. *)

\* the power iteration's cap on iter: for (int iter = 0; iter < 30; iter++)
MAX_ITER == 30

\* length < 1e-10f is length^2 < 1 / ZERO_LENGTH^4
ZERO_LENGTH == 100000

RECURSIVE DivPow(_, _, _)
DivPow(x, inv, k) == IF k = 0 THEN x ELSE DivPow(x \div inv, inv, k - 1)

\* 0 <= a < 1 / inv^k
BelowTolPow(a, inv, k) == a[1] = 0 \/ a[1] <= DivPow(a[2] - 1, inv, k)

\* Dot: x * o.x + y * o.y + z * o.z, each product and sum computed once
V3Dot(a, b) ==
    CHOOSE r \in {FAdd(xy, zz) :
                      xy \in {FAdd(xx, yy) : xx \in {FMul(a.x, b.x)}, yy \in {FMul(a.y, b.y)}},
                      zz \in {FMul(a.z, b.z)}} : TRUE

\* operator*(const Vector3D&)
Matrix3D_MultiplyVector(a, v) ==
    Vector3D(V3Dot(Vector3D(a.m00, a.m01, a.m02), v),
             V3Dot(Vector3D(a.m10, a.m11, a.m12), v),
             V3Dot(Vector3D(a.m20, a.m21, a.m22), v))

Matrix3D_Subtract(a, o) ==
    Matrix3D(FSub(a.m00, o.m00), FSub(a.m01, o.m01), FSub(a.m02, o.m02),
             FSub(a.m10, o.m10), FSub(a.m11, o.m11), FSub(a.m12, o.m12),
             FSub(a.m20, o.m20), FSub(a.m21, o.m21), FSub(a.m22, o.m22))

\* faulty variant: the pair m12, m21 is not compared
Matrix3D_IsSymmetric_TwoPairs(a) ==
    /\ BelowTol(FAbs(FSub(a.m01, a.m10)), EPSILON)
    /\ BelowTol(FAbs(FSub(a.m02, a.m20)), EPSILON)

\* IsSymmetric() with the default epsilon 1e-6f
Matrix3D_IsSymmetric(a) ==
    /\ BelowTol(FAbs(FSub(a.m01, a.m10)), EPSILON)
    /\ BelowTol(FAbs(FSub(a.m02, a.m20)), EPSILON)
    /\ BelowTol(FAbs(FSub(a.m12, a.m21)), EPSILON)

LCM(a, b) == (a \div GCD(a, b)) * b

\* Normalize(): the integer vector without a common factor in the direction
\* of w, the zero vector for a zero w
Direction(w) ==
    CHOOSE r \in UNION {UNION {UNION {
            {IF g = 0 THEN Vector3D(Flt(0), Flt(0), Flt(0))
             ELSE Vector3D(Flt(p[1] \div g), Flt(p[2] \div g), Flt(p[3] \div g)) :
                g \in {GCD(gxy, IAbs(p[3]))}} :
            gxy \in {GCD(IAbs(p[1]), IAbs(p[2]))}} :
            p \in {<<w.x[1] * (l \div w.x[2]), w.y[1] * (l \div w.y[2]), w.z[1] * (l \div w.z[2])>>}} :
            l \in {LCM(lxy, w.z[2]) : lxy \in {LCM(w.x[2], w.y[2])}}} : TRUE

\* the square of the cosine of the angle between two nonzero vectors
CosSq(a, b) ==
    CHOOSE r \in {FDiv(num, den) :
                      num \in {FMul(ab, ab) : ab \in {V3Dot(a, b)}},
                      den \in {FMul(aa, bb) : aa \in {V3Dot(a, a)}, bb \in {V3Dot(b, b)}}} : TRUE

\* (a / |a| - b / |b|).Length() < 1e-6f.  The square of that length is
\* 2 - 2 cos, and with cos > 0 the value 1 - cos lies between (1 - cos^2) / 2
\* and 1 - cos^2; a fraction 1 - cos^2 that is not zero is far above 1e-12,
\* so the test is 1 - cos^2 < 1e-12.
CloseTo(a, b) ==
    /\ V3Dot(a, b)[1] > 0
    /\ \E c \in {CosSq(a, b)} : BelowTolPow(FSub(Flt(1), c), EPSILON, 2)

V3Neg(a) == Vector3D(FNeg(a.x), FNeg(a.y), FNeg(a.z))

\* a std::runtime_error thrown with the message what
ThrownWhat(what) == [ok |-> FALSE, error |-> "runtime_error", what |-> what]

NotSymmetric == ThrownWhat("Eigenvalue calculation requires a symmetric matrix")

ConvergenceFailure == ThrownWhat("Eigenvalue calculation failed to converge")

\* the element of the Vector3D eigenvalues not assigned yet
Unset == <<>>

\* the locals of a call: the loop variables, v as its direction, eigenvalues
Frame(i, iter, v, eigenvalues) == [i |-> i, iter |-> iter, v |-> v, eigenvalues |-> eigenvalues]

\* the body of the inner loop from the product w = (*this) * v and its
\* direction new_v on: where the call goes on and its locals
PowerOutcome(f, w, new_v) ==
    CHOOSE r \in {
        IF BelowTolPow(FDiv(ww, vv), ZERO_LENGTH, 4)
        THEN [pc |-> "deflate", frame |-> [f EXCEPT !.eigenvalues[f.i + 1] = Flt(0)]]
        ELSE IF CloseTo(new_v, f.v) \/ CloseTo(new_v, minus_v)
        THEN [pc |-> "deflate",
              frame |-> [f EXCEPT !.eigenvalues[f.i + 1] = FDiv(vw, vv)]]
        ELSE IF f.iter = MAX_ITER - 1
        THEN [pc |-> "thrown", frame |-> [f EXCEPT !.v = new_v]]
        ELSE [pc |-> "power", frame |-> [f EXCEPT !.v = new_v, !.iter = f.iter + 1]] :
        ww \in {V3Dot(w, w)}, vv \in {V3Dot(f.v, f.v)}, vw \in {V3Dot(f.v, w)},
        minus_v \in {V3Neg(f.v)}} : TRUE

\* faulty variant: iter is not advanced
PowerStep_NoCap(a, f) ==
    CHOOSE r \in UNION {{IF o.pc = "power" THEN [o EXCEPT !.frame.iter = f.iter] ELSE o :
                            o \in {PowerOutcome(f, w, Direction(w))}} :
                        w \in {Matrix3D_MultiplyVector(a, f.v)}} : TRUE

\* one pass through the body of the inner loop on the matrix a; the product
\* and its direction are computed once
PowerStep(a, f) ==
    CHOOSE r \in UNION {{PowerOutcome(f, w, new_v) : new_v \in {Direction(w)}} :
                        w \in {Matrix3D_MultiplyVector(a, f.v)}} : TRUE

\* the matrix vvT of the products of the elements of v = dir / |dir|
OuterProduct(dir) ==
    CHOOSE r \in {Matrix3D(
            FDiv(FMul(dir.x, dir.x), q), FDiv(FMul(dir.x, dir.y), q), FDiv(FMul(dir.x, dir.z), q),
            FDiv(FMul(dir.y, dir.x), q), FDiv(FMul(dir.y, dir.y), q), FDiv(FMul(dir.y, dir.z), q),
            FDiv(FMul(dir.z, dir.x), q), FDiv(FMul(dir.z, dir.y), q), FDiv(FMul(dir.z, dir.z), q)) :
        q \in {V3Dot(dir, dir)}} : TRUE

\* the matrix after the deflation of pass i: *this - vvT * eigenvalues[i];
\* each matrix is computed once
Deflated(a, f) ==
    IF f.i < 2
    THEN CHOOSE r \in UNION {{Matrix3D_Subtract(a, scaled) :
                                 scaled \in {Matrix3D_ScalarMultiply(vvT, f.eigenvalues[f.i + 1])}} :
                             vvT \in {OuterProduct(f.v)}} : TRUE
    ELSE a

\* the seed of the next pass: orthogonal to v after the first pass, v itself
\* after the second
NextSeed(f) ==
    IF f.i = 0
    THEN IF FLess(FAbs(f.v.y), FAbs(f.v.x))
         THEN Direction(Vector3D(FNeg(f.v.z), Flt(0), f.v.x))
         ELSE Direction(Vector3D(Flt(0), FNeg(f.v.z), f.v.y))
    ELSE f.v

EigDiag == {Flt(-1), Flt(0), Flt(1)}

\* the pairs m12, m21: equal, apart by one
EigPairs == {<<Flt(0), Flt(0)>>, <<Flt(1), Flt(0)>>}

EigInputs ==
    {Matrix3D(a, Flt(0), Flt(0), Flt(0), b, p[1], Flt(0), p[2], c) :
         a \in EigDiag, b \in EigDiag, c \in EigDiag, p \in EigPairs}
    \cup {Matrix3D(a, Frac(1, 1000000), Flt(0), Flt(0), b, Flt(0), Flt(0), Flt(0), c) :
         a \in EigDiag, b \in EigDiag, c \in EigDiag}
    \cup {Matrix3D(Flt(0), Flt(1), Flt(0), Flt(1), Flt(0), Flt(0), Flt(0), Flt(0), c) : c \in EigDiag}
    \cup {Matrix3D(Flt(1), Flt(1), Flt(1), Flt(1), Flt(1), Flt(1), Flt(1), Flt(1), Flt(1))}

\* a Matrix3D built from its elements, CalculateEigenvalues not called yet
InitEig ==
    /\ mat \in {Mat(3, m) : m \in EigInputs}
    /\ transforms = <<>>
    /\ pc = "ready"
    /\ stack = <<>>
    /\ retval = NoCall
    /\ out = NoCall

\* the call up to the inner loop: the test of the symmetry, then the seed
EigBegin ==
    /\ pc = "ready"
    /\ out' = [op |-> "CalculateEigenvalues", self |-> mat]
    /\ IF ~Matrix3D_IsSymmetric(mat.m)
       THEN /\ pc' = "done"
            /\ retval' = NotSymmetric
            /\ stack' = <<>>
       ELSE /\ pc' = "power"
            /\ retval' = NoCall
            /\ stack' = <<Frame(0, 0, Direction(Vector3D(Flt(1), Flt(1), Flt(1))),
                                <<Unset, Unset, Unset>>)>>
    /\ UNCHANGED <<transforms, mat>>

\* one pass through the body of the inner loop
EigPowerStep ==
    /\ pc = "power"
    /\ \E r \in {PowerStep(mat.m, stack[1])} :
           /\ pc' = IF r.pc = "thrown" THEN "done" ELSE r.pc
           /\ retval' = IF r.pc = "thrown" THEN ConvergenceFailure ELSE retval
           /\ stack' = IF r.pc = "thrown" THEN <<>> ELSE <<r.frame>>
    /\ UNCHANGED <<transforms, mat, out>>

\* the rest of the body of the outer loop, and the return after the third pass
EigDeflate ==
    /\ pc = "deflate"
    /\ \E f \in {stack[1]} :
           /\ mat' = Mat(3, Deflated(mat.m, f))
           /\ pc' = IF f.i = 2 THEN "done" ELSE "power"
           /\ retval' = IF f.i = 2 THEN Returned(f.eigenvalues) ELSE retval
           /\ stack' = IF f.i = 2 THEN <<>>
                       ELSE <<[f EXCEPT !.i = f.i + 1, !.iter = 0, !.v = NextSeed(f)]>>
    /\ UNCHANGED <<transforms, out>>

NextEig == EigBegin \/ EigPowerStep \/ EigDeflate

SpecEig == InitEig /\ [][NextEig]_vars

\* a call that was started goes on: the code is sequential
SpecEigLive == SpecEig /\ WF_vars(NextEig)

---------------------------------------------------------------------------
(* Claims on the lazy cache and the parent chain *)

\* C1: whenever the dirty flag of a transform is false, its cached matrix is
\* [sx*cos r, -sy*sin r, px; sx*sin r, sy*cos r, py; 0, 0, 1] of its current
\* position, rotation and scale; GetLocalMatrix returns that matrix and leaves
\* the transform clean.
C1_CacheCoherent ==
    \A id \in Objects :
        LET t == transforms[id]
            c == Cos(t.m_Rotation)
            s == Sin(t.m_Rotation)
            expected == Matrix3D(
                FMul(t.m_Scale.x, c), FNeg(FMul(t.m_Scale.y, s)), t.m_Position.x,
                FMul(t.m_Scale.x, s), FMul(t.m_Scale.y, c), t.m_Position.y,
                Flt(0), Flt(0), Flt(1))
            r == GetLocalMatrix(transforms, id)
        IN  /\ ~t.m_IsDirty => t.m_LocalMatrix = expected
            /\ r.val = expected
            /\ ~r.heap[id].m_IsDirty

\* a transform that was read, mutated and read again: clean, rotated and scaled
C1_Witness ==
    \E id \in Objects :
        /\ ~transforms[id].m_IsDirty
        /\ transforms[id].m_Rotation = Flt(1)
        /\ transforms[id].m_Scale = Vector2D(Flt(1), Flt(2))
        /\ transforms[id].m_Position = Vector2D(Flt(1), Flt(2))
        /\ transforms[id].m_LocalMatrix # Matrix3D_Default

\* C2: a newly constructed transform is dirty, and every mutator leaves the
\* dirty flag true and the cached matrix as it was.
C2_MutatorsInvalidate ==
    /\ \A id \in Objects : transforms[id].m_IsDirty
    /\ [][\A id \in Objects :
            (\/ \E p \in PosVals : SetPosition(id, p) \/ Translate(id, p)
             \/ \E r \in RotVals : SetRotationRad(id, r) \/ RotateRad(id, r)
             \/ \E d \in DegVals : SetRotationDeg(id, d) \/ RotateDeg(id, d)
             \/ \E s \in ScaleVals : SetScale(id, s) \/ Scale(id, s)
             \/ \E u \in UniformVals : SetScaleUniform(id, u) \/ ScaleUniform(id, u))
            => /\ transforms'[id].m_IsDirty
               /\ transforms'[id].m_LocalMatrix = transforms[id].m_LocalMatrix]_vars

\* a transform mutated after a read: dirty, its cache still the matrix of the old values
C2_Witness ==
    \E id \in Objects :
        /\ transforms[id].m_IsDirty
        /\ transforms[id].m_LocalMatrix # Matrix3D_Default
        /\ transforms[id].m_LocalMatrix # BuildMatrix(transforms[id])

\* C3: on an acyclic chain GetWorldMatrix is the product, root first, of the
\* local matrices of the current position, rotation and scale of every
\* transform of the chain, whatever the caches hold.
C3_WorldIsChainProduct ==
    LET current(t) ==
            LET c == Cos(t.m_Rotation)
                s == Sin(t.m_Rotation)
            IN  Matrix3D(
                    FMul(t.m_Scale.x, c), FNeg(FMul(t.m_Scale.y, s)), t.m_Position.x,
                    FMul(t.m_Scale.x, s), FMul(t.m_Scale.y, c), t.m_Position.y,
                    Flt(0), Flt(0), Flt(1))
        RECURSIVE product(_)
        product(id) ==
            IF transforms[id].m_Parent = nullptr
            THEN current(transforms[id])
            ELSE Matrix3D_Multiply(product(transforms[id].m_Parent), current(transforms[id]))
    IN  \A id \in Objects :
            Acyclic(transforms, id) => GetWorldMatrix(transforms, id).val = product(id)

\* a child that was read, and whose parent was mutated afterwards
C3_Witness ==
    \E id \in Objects :
        LET parent == transforms[id].m_Parent
        IN  /\ parent # nullptr /\ parent # id
            /\ transforms[parent].m_Parent = nullptr
            /\ ~transforms[id].m_IsDirty
            /\ transforms[id].m_LocalMatrix # Matrix3D_Default
            /\ transforms[parent].m_IsDirty
            /\ transforms[parent].m_LocalMatrix # Matrix3D_Default
            /\ transforms[parent].m_LocalMatrix # BuildMatrix(transforms[parent])


\* C4: SetParent takes any reference, itself and a descendant included, and a
\* GetWorldMatrix call returns if and only if the parent chain of its receiver
\* is acyclic: on an acyclic chain it returns, on a cycle it never does.
C4_TerminatesIffAcyclic ==
    /\ [][\A id \in Objects, parent \in Objects \cup {nullptr} :
            (pc = "ready" /\ stack = <<>>) => ENABLED SetParent(id, parent)]_vars
    /\ [][(stack # <<>> /\ stack' = <<>>) => Acyclic(transforms, stack[1])]_vars
    /\ [](stack # <<>> /\ ~Acyclic(transforms, stack[1]) => [](stack # <<>>))
    /\ (stack # <<>> /\ Acyclic(transforms, stack[1])) ~> (stack = <<>>)

\* a call on a two-object parent cycle, nested deeper than the objects are many
C4_Witness ==
    /\ Len(stack) = MaxDepth
    /\ transforms[1].m_Parent = 2 /\ transforms[2].m_Parent = 1


---------------------------------------------------------------------------
(* Claims on the values the calls return *)

\* C5: for a transform T without parent, T.Compose(T.Inverse()) is the identity
\* transform within 1e-5 and InverseTransformPoint(TransformPoint(p)) is p
\* within 1e-5, whatever the position, the rotation and the non-zero scale.
C5_InverseUndoes ==
    \A id \in Objects :
        transforms[id].m_Parent = nullptr =>
            /\ IsIdentity(Compose(transforms[id], Inverse(transforms, id).val), EPSILON_MEDIUM)
            /\ \A p \in Points :
                LET q == TransformPoint(transforms, id, p)
                    back == InverseTransformPoint(q.heap, id, q.val)
                IN  BelowTol(V2Length(V2Sub(back.val, p)), EPSILON_MEDIUM)

\* C7: TransformPoint(q) is the world matrix applied to (q.x, q.y, 1); the
\* identity transform maps every point to itself; through an unrotated child C
\* of an unrotated parent P the point q goes to P.position + P.scale *
\* (C.position + C.scale * q), componentwise, and the origin goes to (3, 0)
\* through the parent at (1, 0) scaled (2, 2) and the child at (1, 0).
C7_TransformPoint ==
    /\ \A id \in Objects, q \in Points :
        Acyclic(transforms, id) =>
            LET W == GetWorldMatrix(transforms, id).val
                r == TransformPoint(transforms, id, q).val
                t == transforms[id]
            IN  /\ r.x = FAdd(FAdd(FMul(W.m00, q.x), FMul(W.m01, q.y)), W.m02)
                /\ r.y = FAdd(FAdd(FMul(W.m10, q.x), FMul(W.m11, q.y)), W.m12)
                /\ (t.m_Parent = nullptr /\ t.m_Position = Identity.m_Position
                        /\ t.m_Rotation = Identity.m_Rotation /\ t.m_Scale = Identity.m_Scale)
                    => r = q
                /\ (t.m_Parent # nullptr /\ t.m_Rotation = Flt(0)
                        /\ transforms[t.m_Parent].m_Rotation = Flt(0))
                    => LET P == transforms[t.m_Parent]
                       IN  /\ r.x = FAdd(P.m_Position.x,
                                     FMul(P.m_Scale.x, FAdd(t.m_Position.x, FMul(t.m_Scale.x, q.x))))
                           /\ r.y = FAdd(P.m_Position.y,
                                     FMul(P.m_Scale.y, FAdd(t.m_Position.y, FMul(t.m_Scale.y, q.y))))
    /\ LET parent == Transform2D(Vector2D(Flt(1), Flt(0)), Flt(0), Vector2D(Flt(2), Flt(2)))
           child == [Transform2D(Vector2D(Flt(1), Flt(0)), Flt(0), Vector2D(Flt(1), Flt(1)))
                        EXCEPT !.m_Parent = 1]
           h == <<parent, child>>
       IN  TransformPoint(h, 2, Vector2D(Flt(0), Flt(0))).val = Vector2D(Flt(3), Flt(0))

\* an unrotated, moved and scaled child of an unrotated, moved and scaled parent, both read
C7_Witness ==
    /\ transforms[2].m_Parent = 1 /\ transforms[1].m_Parent = nullptr
    /\ \A id \in Objects :
        /\ transforms[id].m_Rotation = Flt(0)
        /\ transforms[id].m_Position = Vector2D(Flt(1), Flt(2))
        /\ transforms[id].m_Scale = Vector2D(Flt(1), Flt(2))
        /\ ~transforms[id].m_IsDirty

\* C8: TransformVector(v) is TransformPoint(v) - TransformPoint((0,0)) with or
\* without parents, setting a position anywhere on the chain leaves the result
\* of TransformVector as it was, and TransformDirection returns what
\* TransformVector returns.
C8_VectorIgnoresTranslation ==
    \A id \in Objects, v \in Points :
        Acyclic(transforms, id) =>
            LET r == TransformVector(transforms, id, v).val
                W == GetWorldMatrix(transforms, id).val
                origin == Vector2D(Flt(0), Flt(0))
                image(q) == Vector2D(
                    FAdd(FAdd(FMul(W.m00, q.x), FMul(W.m01, q.y)), W.m02),
                    FAdd(FAdd(FMul(W.m10, q.x), FMul(W.m11, q.y)), W.m12))
            IN  /\ r = V2Sub(image(v), image(origin))
                /\ r = V2Sub(TransformPoint(transforms, id, v).val,
                             TransformPoint(transforms, id, origin).val)
                /\ TransformDirection(transforms, id, v).val = r
                /\ \A moved \in Objects, p \in PosVals :
                    LET h == [transforms EXCEPT ![moved].m_Position = p, ![moved].m_IsDirty = TRUE]
                    IN  TransformVector(h, id, v).val = r

\* a rotated, scaled child of a moved parent, both away from the origin and read
C8_Witness ==
    /\ transforms[2].m_Parent = 1 /\ transforms[1].m_Parent = nullptr
    /\ transforms[2].m_Rotation = Flt(1)
    /\ transforms[1].m_Scale = Vector2D(Flt(1), Flt(2))
    /\ \A id \in Objects :
        /\ transforms[id].m_Position = Vector2D(Flt(1), Flt(2))
        /\ ~transforms[id].m_IsDirty


\* C6: Lerp(a, b, 0) == a and Lerp(a, b, 1) == b under operator==, for any two
\* transforms, rotations more than pi apart included.
C6_LerpBoundary ==
    out.op = "Lerp" =>
        /\ out.t = Flt(0) => Transform2D_Equals(out.val, transforms[out.a])
        /\ out.t = Flt(1) => Transform2D_Equals(out.val, transforms[out.b])

\* C9: Adjoint() is the adjugate for the three sizes: for every matrix M with
\* integer elements, M * M.Adjoint() and M.Adjoint() * M both equal
\* M.Determinant() times the identity, exactly.
C9_AdjointIsAdjugate ==
    (mat.n # 0 /\ \A k \in DOMAIN Mat_Data(mat) : Mat_Data(mat)[k][2] = 1) =>
        LET adj == Mat_Adjoint(mat)
            det == Mat_Determinant(mat)
            detI == [k \in 1..(mat.n * mat.n) |-> FMul(det, Mat_IdentityData(mat.n)[k])]
        IN  /\ Mat_Data(Mat_Multiply(mat, adj)) = detI
            /\ Mat_Data(Mat_Multiply(adj, mat)) = detI

\* Adjoint() was called on a 3x3 matrix of determinant -3 whose adjugate
\* has cofactors of both signs
C9_Witness ==
    /\ out.op = "Adjoint"
    /\ out.self = mat
    /\ mat.n = 3
    /\ Mat_Determinant(mat) = Flt(-3)
    /\ out.val.val.m.m01 = Flt(-2)

\* C10: for every matrix M of one of the three sizes on which Inverse() does
\* not fail, M * M.Inverse() is the identity within 1e-5, and
\* M.Inverse().Inverse() returns M within the same tolerance.
C10_InverseRoundTrip ==
    (mat.n # 0 /\ Mat_Inverse(mat).ok) =>
        LET inv == Mat_Inverse(mat).val
            near(a, b) == \A k \in DOMAIN a : WithinTol(FAbs(FSub(a[k], b[k])), EPSILON_MEDIUM)
        IN  /\ near(Mat_Data(Mat_Multiply(mat, inv)), Mat_IdentityData(mat.n))
            /\ Mat_Inverse(inv).ok
            /\ near(Mat_Data(Mat_Inverse(inv).val), Mat_Data(mat))

---------------------------------------------------------------------------
(* Claims on the failures of the matrix operations *)

C12_TryInverseNeverFails ==
    /\ mat.n = 4 =>
        \A outMatrix \in OutInputs :
            LET t == Matrix4D_TryInverse(mat.m, outMatrix)
                inv == Matrix4D_Inverse(mat.m)
                singular == BelowTol(FAbs(Matrix4D_Determinant(mat.m)), EPSILON)
            IN  /\ t.ok
                /\ ~singular => t.val.result /\ inv.ok /\ t.val.outMatrix = inv.val
                /\ singular => ~t.val.result /\ t.val.outMatrix = outMatrix
    /\ out.op = "TryInverse" =>
        /\ out.val.ok
        /\ ~out.val.val.result => out.val.val.outMatrix = out.before

\* TryInverse returned false on a matrix of small, non-zero determinant, called
\* with an output matrix that is not the default one
C12_Witness ==
    /\ out.op = "TryInverse"
    /\ ~out.val.val.result
    /\ out.before # Matrix4D_Default
    /\ Matrix4D_Determinant(out.self.m) = Frac(1, 1048576)

---------------------------------------------------------------------------
(* Claims on the values of the matrix operations *)

\* C13: Determinant() is the determinant: for every 2x2, 3x3 and 4x4 matrix of
\* integer elements it equals the expansion by minors along the first column
\* of the integer matrix; it is -2 for [[1,2],[3,4]], 0 for the 3x3 matrix of
\* 1..9, 24 for the 4x4 scale matrix (2,3,4), and 0 for a 4x4 matrix with two
\* proportional rows.
C13_DeterminantIsDeterminant ==
    LET RECURSIVE minors(_, _)
        \* rows: sequence of rows of integers; the determinant by the first column
        minors(n, rows) ==
            IF n = 1 THEN rows[1][1]
            ELSE LET without(i) == [r \in 1..(n - 1) |->
                                      [c \in 1..(n - 1) |-> rows[IF r < i THEN r ELSE r + 1][c + 1]]]
                     term(i) == (IF i % 2 = 1 THEN 1 ELSE -1) * rows[i][1] * minors(n - 1, without(i))
                     RECURSIVE sum(_)
                     sum(i) == IF i = 0 THEN 0 ELSE term(i) + sum(i - 1)
                 IN  sum(n)
        asRows(n, d) == [r \in 1..n |-> [c \in 1..n |-> d[(r - 1) * n + c][1]]]
        F(q) == [k \in DOMAIN q |-> Flt(q[k])]
        proportional == F(<<1, 2, 3, 4,  2, 4, 6, 8,  9, 10, 11, 12,  13, 14, 15, 16>>)
    IN  /\ (mat.n # 0 /\ \A k \in DOMAIN Mat_Data(mat) : Mat_Data(mat)[k][2] = 1) =>
            /\ Mat_Determinant(mat) = Flt(minors(mat.n, asRows(mat.n, Mat_Data(mat))))
            /\ mat.n = 4 =>
                \A i \in 0..3, j \in 0..3 :
                    i # j =>
                        Matrix4D_Determinant(
                            [k \in 1..16 |->
                                IF (k - 1) \div 4 = j
                                THEN FNeg(Matrix4D_GetElement(mat.m, i, (k - 1) % 4))
                                ELSE mat.m[k]]) = Flt(0)
        /\ Matrix2D_Determinant(Matrix2D(Flt(1), Flt(2), Flt(3), Flt(4))) = Flt(-2)
        /\ Matrix3D_Determinant(Matrix3D(Flt(1), Flt(2), Flt(3), Flt(4), Flt(5), Flt(6),
                                         Flt(7), Flt(8), Flt(9))) = Flt(0)
        /\ Matrix4D_Determinant(F(<<2, 0, 0, 0,  0, 3, 0, 0,  0, 0, 4, 0,  0, 0, 0, 1>>)) = Flt(24)
        /\ Matrix4D_Determinant(proportional) = Flt(0)

\* Determinant() was called on a 4x4 matrix with two off-diagonal elements set
\* and returned -3
C13_Witness ==
    /\ out.op = "Determinant"
    /\ out.self = mat
    /\ mat.n = 4
    /\ out.val.val = Flt(-3)

---------------------------------------------------------------------------
(* Claims on transposition and the scalar operators *)

\* C14: Transpose is an exact involution for the three sizes, Transpose of
\* Transpose of M is M element for element; and TransposeInPlace of a Matrix3D
\* or Matrix4D leaves the matrix equal to Transpose() of its previous value.
C14_TransposeInvolution ==
    /\ [](mat.n # 0 =>
            /\ Mat_Transpose(Mat_Transpose(mat)) = mat
            /\ \A i \in 0..(mat.n - 1), j \in 0..(mat.n - 1) :
                   Mat_Data(Mat_Transpose(mat))[i * mat.n + j + 1] = Mat_Data(mat)[j * mat.n + i + 1])
    /\ [][TransposeInPlace => mat' = Mat_Transpose(mat)]_vars

C14_Witness ==
    /\ out.op = "TransposeInPlace"
    /\ mat.n = 4
    /\ mat # out.before
    /\ mat = Mat_Transpose(out.before)
    /\ mat.m[15] # mat.m[12]


\* C16: scalar division of a Matrix3D never fails; with |scalar| < 1e-6, zero
\* included, M / scalar is M and M /= scalar leaves M as it was; with
\* |scalar| >= 1e-6 every element is divided by the scalar.
C16_Matrix3DDivideByZeroNoOp ==
    (out.op \in {"Divide", "DivideAssign"} /\ out.self.n = 3) =>
        /\ out.val.ok
        /\ out.op = "DivideAssign" => mat = out.val.val
        /\ IF BelowTol(FAbs(out.arg), EPSILON)
           THEN out.val.val = out.self
           ELSE /\ out.val.val.n = 3
                /\ \A k \in 1..9 :
                       Mat_Data(out.val.val)[k] = FDiv(Mat_Data(out.self)[k], out.arg)

C16_Witness ==
    /\ out.op = "DivideAssign"
    /\ out.self.n = 3
    /\ out.arg = Frac(-1, 2000000)
    /\ mat = out.self

\* C17 as stated: dividing a Matrix2D or a Matrix4D by zero, with operator/ or
\* operator/=, fails with std::invalid_argument, and the matrix is unchanged.
C17_DivisionByZeroFails ==
    (out.op \in {"Divide", "DivideAssign"} /\ out.self.n \in {2, 4} /\ out.arg = Flt(0)) =>
        /\ ~out.val.ok
        /\ out.val.error = "invalid_argument"
        /\ mat = out.self

\* C17, amended: dividing a Matrix4D by zero fails with std::invalid_argument
\* and operator/= leaves the matrix unchanged; dividing a Matrix2D by zero
\* does not fail, every element becomes an infinity or NaN, and operator/=
\* stores them.
C17_DivisionByZero ==
    (out.op \in {"Divide", "DivideAssign"} /\ out.arg = Flt(0)) =>
        /\ out.self.n = 4 =>
               ~out.val.ok /\ out.val.error = "invalid_argument" /\ mat = out.self
        /\ out.self.n = 2 =>
               /\ out.val.ok
               /\ \A k \in 1..4 :
                      LET e == Mat_Data(out.val.val)[k]
                          x == Mat_Data(out.self)[k]
                      IN  IF IsFinite(x) THEN e = <<Sgn(x[1]), 0>> ELSE ~IsFinite(e)
               /\ out.op = "DivideAssign" => mat = out.val.val

C17_Witness ==
    /\ out.op = "DivideAssign"
    /\ out.self.n = 4
    /\ out.arg = Flt(0)
    /\ ~out.val.ok
    /\ mat = out.self

\* C18: for the three sizes M * s is a matrix of the size of M whose element
\* (i, j) is M(i, j) * s.
C18_ScalarMultiplyElementwise ==
    out.op = "ScalarMultiply" =>
        LET r == out.val.val
        IN  /\ DOMAIN r = {"n", "m"}
            /\ r.n = out.self.n
            /\ Len(Mat_Data(r)) = r.n * r.n
            /\ \A k \in 1..(r.n * r.n) : Mat_Data(r)[k] = FMulIEEE(Mat_Data(out.self)[k], out.arg)


---------------------------------------------------------------------------
(* Claims on the indexed accessors *)

\* C15: GetElement, SetElement, GetRow, SetRow, GetColumn and SetColumn of a
\* Matrix3D or a Matrix4D, and operator() of a Matrix3D, fail with
\* std::out_of_range when an index is outside 0..(N - 1), and only then; a
\* setter that fails leaves every element of the matrix unchanged.
C15_AccessorsBoundsChecked ==
    /\ mat.n # 0 =>
           \A row \in -2..(mat.n + 1), col \in -2..(mat.n + 1) :
               LET rowOut == row < 0 \/ row > mat.n - 1
                   colOut == col < 0 \/ col > mat.n - 1
                   fails(r) == ~r.ok /\ r.error = "out_of_range"
                   keeps(r) == r.self = mat
               IN  /\ fails(Mat_GetElement(mat, row, col)) <=> (rowOut \/ colOut)
                   /\ Mat_GetElement(mat, row, col).ok <=> ~(rowOut \/ colOut)
                   /\ mat.n = 3 => (fails(Matrix3D_Call(mat.m, row, col)) <=> (rowOut \/ colOut))
                   /\ fails(Mat_GetRow(mat, row)) <=> rowOut
                   /\ fails(Mat_GetColumn(mat, col)) <=> colOut
                   /\ \A value \in MatVals :
                          LET r == Mat_SetElement(mat, row, col, value)
                          IN  (fails(r) <=> (rowOut \/ colOut)) /\ (fails(r) => keeps(r))
                   /\ \A values \in RowInputs(mat.n) :
                          LET r == Mat_SetRow(mat, row, values)
                              c == Mat_SetColumn(mat, col, values)
                          IN  /\ fails(r) <=> rowOut
                              /\ fails(r) => keeps(r)
                              /\ fails(c) <=> colOut
                              /\ fails(c) => keeps(c)
    /\ (out.op \in {"SetElement", "SetRow", "SetColumn"} /\ ~out.val.ok) => mat = out.self

C15_Witness ==
    /\ out.op = "SetRow"
    /\ ~out.val.ok
    /\ out.val.error = "out_of_range"
    /\ mat.n = 3
    /\ mat = out.self
    /\ mat # Mat(3, Matrix3D_Default)


---------------------------------------------------------------------------
(* Claims on CalculateEigenvalues *)

\* C19: CalculateEigenvalues on a matrix for which IsSymmetric() is false,
\* that is with an off-diagonal pair that differs by 1e-6 or more, fails with
\* the error of the symmetry test before any iteration or deflation: the
\* matrix is unchanged and no eigenvalue is produced.
C19_NotSymmetricFails ==
    /\ mat.n = 3 =>
           (Matrix3D_IsSymmetric(mat.m) <=>
               /\ FLess(FAbs(FSub(mat.m.m01, mat.m.m10)), Frac(1, 1000000))
               /\ FLess(FAbs(FSub(mat.m.m02, mat.m.m20)), Frac(1, 1000000))
               /\ FLess(FAbs(FSub(mat.m.m12, mat.m.m21)), Frac(1, 1000000)))
    /\ (out.op = "CalculateEigenvalues" /\ ~Matrix3D_IsSymmetric(out.self.m)) =>
           /\ pc = "done"
           /\ retval = NotSymmetric
           /\ stack = <<>>
           /\ mat = out.self

C19_Witness ==
    /\ out.op = "CalculateEigenvalues"
    /\ retval = NotSymmetric
    /\ out.self.m.m01 = Frac(1, 1000000)
    /\ mat = out.self

\* C20: CalculateEigenvalues always terminates.  Each of the three power
\* iterations makes at most 30 multiply-and-normalize steps and ends by
\* convergence with the Rayleigh quotient as the eigenvalue, by a product
\* shorter than 1e-10 with the eigenvalue 0, or, after the 30th step, by the
\* convergence error, which ends the whole call.
C20_EigenvaluesTerminate ==
    /\ <>(pc = "done")
    /\ [](pc \in {"power", "deflate"} =>
            /\ Len(stack) = 1
            /\ stack[1].i \in 0..2
            /\ stack[1].iter \in 0..(MAX_ITER - 1))
    /\ [](pc = "done" =>
            \/ retval \in {NotSymmetric, ConvergenceFailure}
            \/ retval.ok /\ \A k \in 1..3 : retval.val[k] # Unset)
    /\ [][EigPowerStep =>
            \E f \in {stack[1]} : \E w \in {Matrix3D_MultiplyVector(mat.m, f.v)} :
                \/ /\ pc' = "deflate"
                   /\ \E vw \in {V3Dot(f.v, w)}, vv \in {V3Dot(f.v, f.v)} :
                          stack'[1].eigenvalues[f.i + 1] = FDiv(vw, vv)
                   /\ CosSq(w, f.v) = Flt(1)
                \/ /\ pc' = "deflate"
                   /\ stack'[1].eigenvalues[f.i + 1] = Flt(0)
                   /\ V3Dot(w, w) = Flt(0)
                \/ /\ pc' = "power"
                   /\ stack'[1].iter = f.iter + 1
                   /\ stack'[1].i = f.i
                \/ /\ pc' = "done"
                   /\ retval' = ConvergenceFailure
                   /\ f.iter = MAX_ITER - 1]_vars

C20_Witness ==
    /\ pc = "done"
    /\ retval = ConvergenceFailure
    /\ out.self.m = Matrix3D(Flt(1), Flt(0), Flt(0), Flt(0), Flt(-1), Flt(0), Flt(0), Flt(0), Flt(0))

\* C21: when CalculateEigenvalues returns (l1, l2, l3) for a symmetric
\* matrix M, taken before the call, Determinant(M) is l1 * l2 * l3 and
\* Trace(M) is l1 + l2 + l3, both within 1e-4.
C21_DeterminantAndTraceMatch ==
    (pc = "done" /\ retval.ok) =>
        \E M \in {out.self.m}, l \in {retval.val} :
            /\ WithinTol(FAbs(FSub(Matrix3D_Determinant(M), FMul(FMul(l[1], l[2]), l[3]))), 10000)
            /\ WithinTol(FAbs(FSub(Matrix3D_Trace(M), FAdd(FAdd(l[1], l[2]), l[3]))), 10000)

\* C22: after the call, whether it returned or failed, the matrix it was
\* invoked on has the value it had before the call.
C22_ReceiverUnchanged ==
    pc = "done" => mat = out.self


---------------------------------------------------------------------------
(* Claims on Matrix2D::Shear *)

\* C23: after m.Shear(ShearX, ShearY), for every m and every pair of factors,
\* m is the matrix that m.GetSheared(ShearX, ShearY) returned before the call.
C23_ShearMatchesGetSheared ==
    out.op = "Shear" => mat = out.val.val


---------------------------------------------------------------------------
(* Claims on the calls that return a Transform2D *)

\* C24 as stated: Compose and operator* return the decomposition of the
\* product of the two local matrices (position from the last column, scale
\* from the lengths of the first two columns, rotation from atan2 of the
\* first column), and the local matrix of the result is that product when
\* both scales are uniform or when both transforms are unrotated, for any
\* non-zero scales.
C24_ComposeExact ==
    out.op \in {"Compose", "Multiply"} =>
        \E a \in {out.self[out.a]}, b \in {out.self[out.b]} :
        \E product \in {Matrix3D_Multiply(BuildMatrix(a), BuildMatrix(b))} :
            /\ out.val.m_Position = Vector2D(product.m02, product.m12)
            /\ out.val.m_Scale = Vector2D(V2Length(Vector2D(product.m00, product.m10)),
                                          V2Length(Vector2D(product.m01, product.m11)))
            /\ \/ a.m_Scale.x = a.m_Scale.y /\ b.m_Scale.x = b.m_Scale.y
               \/ a.m_Rotation = Flt(0) /\ b.m_Rotation = Flt(0)
               => BuildMatrix(out.val) = product

\* C24, amended: as above, but two unrotated transforms give the product
\* only when it is no reflection, that is when the product of the two x
\* scales has the sign of the product of the two y scales.
C24_ComposeExactWithoutReflection ==
    out.op \in {"Compose", "Multiply"} =>
        \E a \in {out.self[out.a]}, b \in {out.self[out.b]} :
        \E product \in {Matrix3D_Multiply(BuildMatrix(a), BuildMatrix(b))} :
            /\ out.val.m_Position = Vector2D(product.m02, product.m12)
            /\ out.val.m_Scale = Vector2D(V2Length(Vector2D(product.m00, product.m10)),
                                          V2Length(Vector2D(product.m01, product.m11)))
            /\ \/ a.m_Scale.x = a.m_Scale.y /\ b.m_Scale.x = b.m_Scale.y
               \/ /\ a.m_Rotation = Flt(0) /\ b.m_Rotation = Flt(0)
                  /\ FLess(Flt(0), FMul(FMul(a.m_Scale.x, b.m_Scale.x),
                                        FMul(a.m_Scale.y, b.m_Scale.y)))
               => BuildMatrix(out.val) = product

\* a rotated transform of uniform negative scale composed with an unrotated
\* one of uniform scale, at different positions
C24_Witness ==
    /\ out.op = "Compose"
    /\ out.self[out.a].m_Rotation = Flt(1)
    /\ out.self[out.a].m_Scale = Vector2D(Flt(-2), Flt(-2))
    /\ out.self[out.a].m_Position = Vector2D(Flt(1), Flt(2))
    /\ out.self[out.b].m_Scale = Vector2D(Flt(1), Flt(1))
    /\ out.self[out.b].m_Position = Vector2D(Flt(1), Flt(2))
    /\ out.val.m_Rotation = Flt(-1)
    /\ BuildMatrix(out.val) =
           Matrix3D_Multiply(BuildMatrix(out.self[out.a]), BuildMatrix(out.self[out.b]))


---------------------------------------------------------------------------
(* Claims on the loops of Lerp *)

\* C25: for any finite rotations of a and b a call of Lerp ends; after the
\* two loops the adjusted endpoints are at most pi apart and each differs
\* from the rotation it started from by a multiple of 2 * pi; the rotation of
\* the result is rotA + (rotB - rotA) * t with t clamped to [0, 1].
C25_LerpShorterPath ==
    /\ (pc = "loopA") ~> (pc = "done")
    /\ [](pc = "done" =>
            \E d \in {FSub(out.rotB, out.rotA)}, t \in {FMax(Flt(0), FMin(Flt(1), out.t))} :
                /\ ~FLess(Flt(PI), FAbs(d))
                /\ FSub(out.rotA, transforms[out.a].m_Rotation)[1] % TAU = 0
                /\ FSub(out.rotB, transforms[out.b].m_Rotation)[1] % TAU = 0
                /\ retval.m_Rotation = FAdd(out.rotA, FMul(d, t))
                /\ retval = Lerp(transforms[out.a], transforms[out.b], out.t))


---------------------------------------------------------------------------
(* Claims on the use of one Transform2D by two threads *)

\* C26: when every call on the object is made under one mutex, then between
\* the calls a clear dirty flag means that the cached matrix is the matrix
\* of the current position, rotation and scale; without a mutex a state is
\* reached, the witness, in which both calls have returned, the flag is
\* clear and the cached matrix is that of an earlier position.
C26_MutexKeepsCacheCoherent ==
    (retval.mutex /\ \A th \in Threads : pc[th] = "idle") =>
        (~transforms[1].m_IsDirty =>
            transforms[1].m_LocalMatrix = BuildMatrix(transforms[1]))

C26_Witness ==
    /\ ~retval.mutex
    /\ \A th \in Threads : pc[th] = "idle"
    /\ out.op = "GetLocalMatrix"
    /\ ~transforms[1].m_IsDirty
    /\ transforms[1].m_LocalMatrix # BuildMatrix(transforms[1])


---------------------------------------------------------------------------
(* Claims on what the calls leave alone *)

\* C27: GetLocalMatrix, GetWorldMatrix, TransformPoint, TransformVector,
\* TransformDirection, InverseTransformPoint, InverseTransformVector, Inverse,
\* Compose, operator* and Lerp leave the position, rotation, scale and parent
\* of every object as they are, and change the dirty flag only by clearing
\* it; SetParent changes the parent of its receiver and nothing else.
C27_ConstCallsKeepState ==
    /\ [][ConstCall =>
              \A id \in Objects :
                  /\ transforms'[id].m_Position = transforms[id].m_Position
                  /\ transforms'[id].m_Rotation = transforms[id].m_Rotation
                  /\ transforms'[id].m_Scale = transforms[id].m_Scale
                  /\ transforms'[id].m_Parent = transforms[id].m_Parent
                  /\ transforms'[id].m_IsDirty => transforms[id].m_IsDirty]_vars
    /\ [][\A id \in Objects, parent \in Objects \cup {nullptr} :
              SetParent(id, parent) =>
                  transforms' = [transforms EXCEPT ![id].m_Parent = parent]]_vars

\* a call on a child beyond the first turn refreshed its cache and the
\* cache of its parent
C27_Witness ==
    /\ transforms[1].m_Parent = 2
    /\ transforms[2].m_Parent = nullptr
    /\ ~transforms[1].m_IsDirty
    /\ ~transforms[2].m_IsDirty
    /\ transforms[1].m_Rotation = Flt(5)
    /\ transforms[1].m_LocalMatrix = BuildMatrix(transforms[1])


---------------------------------------------------------------------------
(* Claims on what operator*= and the returned transforms carry *)

\* C28: a step that makes the call t *= other leaves t with the position,
\* rotation and scale decomposed from the product of the two local matrices,
\* dirty and without a parent, whatever parent t had; the value of a
\* Compose, operator*, Inverse or Lerp call has no parent
C28_MulAssignReplacesReceiver ==
    [][out' # out =>
          /\ out'.op = "MulAssign" =>
                \E t \in {transforms'[out'.a]},
                   resultMat \in {Matrix3D_Multiply(
                                     UpdateMatrix(out'.self[out'.a]).m_LocalMatrix,
                                     UpdateMatrix(out'.self[out'.b]).m_LocalMatrix)} :
                    \E scaleX \in {V2Length(Vector2D(resultMat.m00, resultMat.m10))},
                       scaleY \in {V2Length(Vector2D(resultMat.m01, resultMat.m11))} :
                        /\ t = out'.val
                        /\ t.m_Position = Vector2D(resultMat.m02, resultMat.m12)
                        /\ t.m_Scale = Vector2D(scaleX, scaleY)
                        /\ t.m_Rotation = Atan2(FDiv(resultMat.m10, scaleX),
                                                FDiv(resultMat.m00, scaleX))
                        /\ t.m_IsDirty
                        /\ t.m_Parent = nullptr
          /\ out'.op \in {"Compose", "Multiply", "Inverse", "Lerp"} =>
                out'.val.m_Parent = nullptr]_vars

\* the receiver had the second object as its parent when it was assigned to
C28_Witness ==
    /\ out.op = "MulAssign"
    /\ out.a = 1
    /\ out.self[1].m_Parent = 2
    /\ transforms[1] = out.val
    /\ transforms[1].m_Parent = nullptr


\* the scale is the same non-zero factor on both axes
UniformScale(t) == t.m_Scale.x = t.m_Scale.y /\ t.m_Scale.x # Flt(0)

\* C29: Inverse called on an object with a parent returns
\* Compose(local inverse, parent.Inverse()); when the chain ends and the
\* object and its parent have uniform non-zero scales, the local matrix of
\* the returned transform times the world matrix is the identity on either
\* side and InverseTransformPoint(TransformPoint(p)) is p
C29_InverseWithParent ==
    (out.op = "Inverse" /\ out.self[out.a].m_Parent # nullptr) =>
        \E h \in {out.self}, id \in {out.a} :
            \E parentInverse \in {Inverse(h, h[id].m_Parent).val},
               world \in {GetWorldMatrix(h, id).val},
               inverseMat \in {UpdateMatrix(out.val).m_LocalMatrix},
               one \in {UpdateMatrix(Identity).m_LocalMatrix} :
                /\ out.val = Compose(LocalInverse(h[id]), parentInverse)
                /\ (UniformScale(h[id]) /\ UniformScale(h[h[id].m_Parent])) =>
                      /\ Matrix3D_Multiply(inverseMat, world) = one
                      /\ Matrix3D_Multiply(world, inverseMat) = one
                      /\ \A p \in Points :
                            \E q \in {TransformPoint(h, id, p).val} :
                                InverseTransformPoint(h, id, q).val = p

\* the object and its parent are rotated, moved and scaled by -2, and the
\* inverse was returned
C29_Witness ==
    /\ out.op = "Inverse"
    /\ out.a = 1
    /\ out.self[1].m_Parent = 2
    /\ out.self[1].m_Scale = Vector2D(Flt(-2), Flt(-2))
    /\ out.self[2].m_Scale = Vector2D(Flt(-2), Flt(-2))
    /\ out.self[1].m_Rotation = Flt(1)
    /\ out.self[2].m_Rotation = Flt(1)
    /\ out.self[1].m_Position = Vector2D(Flt(1), Flt(2))
    /\ out.self[2].m_Position = Vector2D(Flt(1), Flt(2))
    /\ InverseTransformPoint(out.self, 1,
           TransformPoint(out.self, 1, Vector2D(Flt(3), Flt(4))).val).val
       = Vector2D(Flt(3), Flt(4))


---------------------------------------------------------------------------
(* The rotations of Matrix4D *)

(* An angle is a number of quarter turns plus part times the angle whose
   cosine is 3/5 and whose sine is 4/5 (part in -1, 0, 1), so that std::cos
   and std::sin are rational on every angle used and take values other than
   0, 1 and -1. *)
Angle(quarter, part) == [quarter |-> quarter, part |-> part]

NegAngle(t) == Angle(-t.quarter, -t.part)

\* std::cos and std::sin, by the addition formulas
CosOf(t) ==
    LET c0 == IF t.part = 0 THEN Flt(1) ELSE Frac(3, 5)
        s0 == IF t.part = 0 THEN Flt(0) ELSE Frac(4 * t.part, 5)
    IN  FSub(FMul(c0, Cos(Flt(t.quarter))), FMul(s0, Sin(Flt(t.quarter))))

SinOf(t) ==
    LET c0 == IF t.part = 0 THEN Flt(1) ELSE Frac(3, 5)
        s0 == IF t.part = 0 THEN Flt(0) ELSE Frac(4 * t.part, 5)
    IN  FAdd(FMul(s0, Cos(Flt(t.quarter))), FMul(c0, Sin(Flt(t.quarter))))

Matrix4D_Identity ==
    <<Flt(1), Flt(0), Flt(0), Flt(0),
      Flt(0), Flt(1), Flt(0), Flt(0),
      Flt(0), Flt(0), Flt(1), Flt(0),
      Flt(0), Flt(0), Flt(0), Flt(1)>>

\* faulty variant: the signs of the sines are those of CreateRotationX
Matrix4D_RotateX_CreateSigns(a, angleRadians) ==
    LET c == CosOf(angleRadians)
        s == SinOf(angleRadians)
    IN  Matrix4D_Multiply(a,
            [Matrix4D_Default EXCEPT ![6] = c, ![7] = s, ![10] = FNeg(s), ![11] = c])

\* rotation.m11 = c, m12 = -s, m21 = s, m22 = c; return *this * rotation
Matrix4D_RotateX(a, angleRadians) ==
    LET c == CosOf(angleRadians)
        s == SinOf(angleRadians)
    IN  Matrix4D_Multiply(a,
            [Matrix4D_Default EXCEPT ![6] = c, ![7] = FNeg(s), ![10] = s, ![11] = c])

\* rotation.m00 = c, m02 = s, m20 = -s, m22 = c
Matrix4D_RotateY(a, angleRadians) ==
    LET c == CosOf(angleRadians)
        s == SinOf(angleRadians)
    IN  Matrix4D_Multiply(a,
            [Matrix4D_Default EXCEPT ![1] = c, ![3] = s, ![9] = FNeg(s), ![11] = c])

\* rotation.m00 = c, m01 = -s, m10 = s, m11 = c
Matrix4D_RotateZ(a, angleRadians) ==
    LET c == CosOf(angleRadians)
        s == SinOf(angleRadians)
    IN  Matrix4D_Multiply(a,
            [Matrix4D_Default EXCEPT ![1] = c, ![2] = FNeg(s), ![5] = s, ![6] = c])

Matrix4D_CreateRotationX(angleRadians) ==
    LET cosAngle == CosOf(angleRadians)
        sinAngle == SinOf(angleRadians)
    IN  <<Flt(1), Flt(0), Flt(0), Flt(0),
          Flt(0), cosAngle, sinAngle, Flt(0),
          Flt(0), FNeg(sinAngle), cosAngle, Flt(0),
          Flt(0), Flt(0), Flt(0), Flt(1)>>

Matrix4D_CreateRotationY(angleRadians) ==
    LET cosAngle == CosOf(angleRadians)
        sinAngle == SinOf(angleRadians)
    IN  <<cosAngle, Flt(0), FNeg(sinAngle), Flt(0),
          Flt(0), Flt(1), Flt(0), Flt(0),
          sinAngle, Flt(0), cosAngle, Flt(0),
          Flt(0), Flt(0), Flt(0), Flt(1)>>

Matrix4D_CreateRotationZ(angleRadians) ==
    LET cosAngle == CosOf(angleRadians)
        sinAngle == SinOf(angleRadians)
    IN  <<cosAngle, sinAngle, Flt(0), Flt(0),
          FNeg(sinAngle), cosAngle, Flt(0), Flt(0),
          Flt(0), Flt(0), Flt(1), Flt(0),
          Flt(0), Flt(0), Flt(0), Flt(1)>>

\* the axis divided by its length, the zero vector for the zero vector
Vector3D_GetNormalized(v) ==
    LET length == Sqrt(FAdd(FAdd(FMul(v.x, v.x), FMul(v.y, v.y)), FMul(v.z, v.z)))
    IN  IF length = Flt(0) THEN Vector3D(Flt(0), Flt(0), Flt(0))
        ELSE Vector3D(FDiv(v.x, length), FDiv(v.y, length), FDiv(v.z, length))

Matrix4D_CreateRotation(axis, angleRadians) ==
    LET c == CosOf(angleRadians)
        s == SinOf(angleRadians)
        t == FSub(Flt(1), c)
        nAxis == Vector3D_GetNormalized(axis)
        x == nAxis.x
        y == nAxis.y
        z == nAxis.z
    IN  <<FAdd(FMul(FMul(t, x), x), c),
          FSub(FMul(FMul(t, x), y), FMul(s, z)),
          FAdd(FMul(FMul(t, x), z), FMul(s, y)),
          Flt(0),
          FAdd(FMul(FMul(t, x), y), FMul(s, z)),
          FAdd(FMul(FMul(t, y), y), c),
          FSub(FMul(FMul(t, y), z), FMul(s, x)),
          Flt(0),
          FSub(FMul(FMul(t, x), z), FMul(s, y)),
          FAdd(FMul(FMul(t, y), z), FMul(s, x)),
          FAdd(FMul(FMul(t, z), z), c),
          Flt(0),
          Flt(0), Flt(0), Flt(0), Flt(1)>>

AxisX == Vector3D(Flt(1), Flt(0), Flt(0))

AxisY == Vector3D(Flt(0), Flt(1), Flt(0))

AxisZ == Vector3D(Flt(0), Flt(0), Flt(1))

\* the unit axes and an axis that is not normalized
Axes == {AxisX, AxisY, AxisZ, Vector3D(Flt(0), Flt(0), Flt(2))}

Angles == {Angle(quarter, part) : quarter \in (-2) .. 2, part \in {-1, 0, 1}}

InitRot ==
    /\ mat = Mat(4, Matrix4D_Identity)
    /\ transforms = <<>>
    /\ pc = "made"
    /\ stack = <<>>
    /\ retval = NoCall
    /\ out = NoCall

\* m = val, after a call op(arg, angle) made on the matrix self
Assigned(op, self, arg, angle, val, at) ==
    /\ mat' = Mat(4, val)
    /\ out' = [op |-> op, self |-> self, arg |-> arg, angle |-> angle, val |-> val]
    /\ pc' = at
    /\ UNCHANGED <<transforms, stack, retval>>

\* m = Matrix4D::...(...): a matrix is made by one of the static functions,
\* which have no receiver
Made(op, arg, angle, val) == Assigned(op, <<>>, arg, angle, val, "made")

\* m = m.Rotate...(angle), once on a matrix that was made
Rotated(op, arg, angle, val) ==
    /\ pc = "made"
    /\ Assigned(op, mat.m, arg, angle, val, "rotated")

RotateXCall(angle) == Rotated("RotateX", AxisX, angle, Matrix4D_RotateX(mat.m, angle))

RotateYCall(angle) == Rotated("RotateY", AxisY, angle, Matrix4D_RotateY(mat.m, angle))

RotateZCall(angle) == Rotated("RotateZ", AxisZ, angle, Matrix4D_RotateZ(mat.m, angle))

CreateRotationXCall(angle) ==
    Made("CreateRotationX", AxisX, angle, Matrix4D_CreateRotationX(angle))

CreateRotationYCall(angle) ==
    Made("CreateRotationY", AxisY, angle, Matrix4D_CreateRotationY(angle))

CreateRotationZCall(angle) ==
    Made("CreateRotationZ", AxisZ, angle, Matrix4D_CreateRotationZ(angle))

CreateRotationCall(axis, angle) ==
    Made("CreateRotation", axis, angle, Matrix4D_CreateRotation(axis, angle))

\* m = Matrix4D::Identity()
IdentityCall ==
    Made("Identity", AxisX, Angle(0, 0), Matrix4D_Identity)

NextRot ==
    \/ IdentityCall
    \/ \E angle \in Angles : RotateXCall(angle)
    \/ \E angle \in Angles : RotateYCall(angle)
    \/ \E angle \in Angles : RotateZCall(angle)
    \/ \E angle \in Angles : CreateRotationXCall(angle)
    \/ \E angle \in Angles : CreateRotationYCall(angle)
    \/ \E angle \in Angles : CreateRotationZCall(angle)
    \/ \E axis \in Axes, angle \in Angles : CreateRotationCall(axis, angle)

SpecRot == InitRot /\ [][NextRot]_vars

---------------------------------------------------------------------------
(* Claims on the rotations of Matrix4D *)

\* what the three families give for the axis and the angle of the call out
RotateOf(axis, t) ==
    CASE axis = AxisX -> Matrix4D_RotateX(Matrix4D_Identity, t)
      [] axis = AxisY -> Matrix4D_RotateY(Matrix4D_Identity, t)
      [] axis = AxisZ -> Matrix4D_RotateZ(Matrix4D_Identity, t)

CreateRotationOf(axis, t) ==
    CASE axis = AxisX -> Matrix4D_CreateRotationX(t)
      [] axis = AxisY -> Matrix4D_CreateRotationY(t)
      [] axis = AxisZ -> Matrix4D_CreateRotationZ(t)

\* C30: for each axis A and angle t, Identity().RotateA(t) is the transpose
\* of CreateRotationA(t), which is CreateRotationA(-t), and is what
\* CreateRotation(unit axis A, t) returns; CreateRotationA(t) is the same
\* matrix exactly when sin(t) is 0
C30_OppositeSignConventions ==
    /\ (out.op \in {"RotateX", "RotateY", "RotateZ"} /\ out.self = Matrix4D_Identity) =>
          \E created \in {CreateRotationOf(out.arg, out.angle)} :
              /\ out.val = Matrix4D_Transpose(created)
              /\ out.val = CreateRotationOf(out.arg, NegAngle(out.angle))
              /\ out.val = Matrix4D_CreateRotation(out.arg, out.angle)
              /\ (out.val = created) <=> (SinOf(out.angle) = Flt(0))
    /\ (out.op \in {"CreateRotationX", "CreateRotationY", "CreateRotationZ"}) =>
          \E rotated \in {RotateOf(out.arg, out.angle)} :
              /\ out.val = Matrix4D_Transpose(rotated)
              /\ (out.val = rotated) <=> (SinOf(out.angle) = Flt(0))
    /\ (out.op = "CreateRotation" /\ out.arg \in {AxisX, AxisY, AxisZ}) =>
          /\ out.val = RotateOf(out.arg, out.angle)
          /\ (out.val = CreateRotationOf(out.arg, out.angle)) <=> (SinOf(out.angle) = Flt(0))

\* Identity().RotateX(t) was called with cos(t) = -4/5 and sin(t) = 3/5
C30_Witness ==
    /\ out.op = "RotateX"
    /\ out.self = Matrix4D_Identity
    /\ CosOf(out.angle) = Frac(-4, 5)
    /\ SinOf(out.angle) = Frac(3, 5)
    /\ out.val[7] = Frac(-3, 5)
    /\ out.val # Matrix4D_CreateRotationX(out.angle)


=============================================================================
